---- MODULE Spec2Model ----
(***************************************************************************)
(* A model of PhishingDetector/phish_detector.py: the start-up pipeline    *)
(* (load, validate, split, fit, open the store, evaluate) and the          *)
(* interactive loop with its three blocking reads of standard input.       *)
(*                                                                         *)
(* A character is its Unicode code point, and text is a sequence of runs   *)
(* of one character, on which strip(), lower(), upper() and len() are      *)
(* computed as Python computes them, with the case mappings of the Unicode *)
(* database of the interpreter (14.0.0).  A confidence is an integer       *)
(* number of hundredths of a percent (round(x, 2) keeps two decimals); a   *)
(* class probability is an integer number of 1/PScale.                     *)
(*                                                                         *)
(* Outside the source, and modelled by their documented behaviour: pandas  *)
(* read_csv, scikit-learn's train_test_split / TfidfVectorizer /           *)
(* RandomForestClassifier, and sqlite3.  An INSERT opens a transaction     *)
(* that holds its row until a commit succeeds; the statement and the       *)
(* commit may each raise sqlite3.Error, and a text holding a surrogate     *)
(* code point cannot be bound to a statement (UnicodeEncodeError).  The    *)
(* DEFAULT CURRENT_TIMESTAMP column of both tables is not modelled.  A     *)
(* TEXT value is held in the tables as its UTF-8 bytes.                    *)
(*                                                                         *)
(* Standard input holds MaxLines lines at most; the script and the         *)
(* database are not bounded.                                               *)
(***************************************************************************)
EXTENDS Integers, Sequences, FiniteSets, TLC

VARIABLES
    pc,               \* position of the script
    emails_csv,       \* the file emails.csv, and `data` once it is loaded
    split,            \* sizes of X_train / X_test and the classes of y_train
    vectorizer,       \* the fitted vocabulary (a set of terms)
    model,            \* the fitted classifier
    conn,             \* the sqlite3 connection: "none", "open" or "closed"
    detections,       \* table detections as the connection reads it
    false_positives,  \* table false_positives as the connection reads it
    committed,        \* how many rows of each table the file holds for good
    start,            \* the two row counts when the store was opened
    written,          \* how many writes to each table were committed
    stdin,            \* outcome of the latest input() call
    consumed,         \* how many lines were read from standard input
    email,            \* loop variable email
    prediction,       \* loop variable prediction
    confidence,       \* loop variable confidence
    out               \* the latest message printed

vars == <<pc, emails_csv, split, vectorizer, model, conn, detections,
          false_positives, committed, start, written, stdin, consumed, email,
          prediction, confidence, out>>

(***************************************************************************)
(* Bounds of the model and constants of the program.                       *)
(***************************************************************************)
MaxLines == 5     \* lines standard input holds
MaxPad == 1       \* whitespace characters put around an input line
InitRows == 1     \* rows a table may hold from earlier sessions
PScale == 100000  \* resolution of a class probability

MinLen == 10      \* len(email) < 10
MaxLen == 1000    \* len(email) > 1000
TestPct == 20     \* test_size=0.2
SmallData == 10   \* len(data) < 10

(***************************************************************************)
(* Strings.  A character is its Unicode code point, a number from 0 to     *)
(* 1114111, as ord() gives it.  A text is the sequence of its maximal      *)
(* runs: [c |-> 97, n |-> 3] stands for "aaa", and two neighbouring runs   *)
(* never hold the same character, so that equal texts are equal values.    *)
(*                                                                         *)
(* The case mappings, the cased and the case-ignorable characters are      *)
(* those of the Unicode Character Database 14.0.0 that str.lower() and     *)
(* str.upper() of CPython 3.11 follow, written as ranges of code points.   *)
(***************************************************************************)
\* the printable ASCII characters from space (32) to underscore (95)
AsciiLow ==
    <<" ","!","\"","#","$","%","&","'","(",")","*","+",",",
      "-",".","/","0","1","2","3","4","5","6","7","8","9",
      ":",";","<","=",">","?","@","A","B","C","D","E","F",
      "G","H","I","J","K","L","M","N","O","P","Q","R","S",
      "T","U","V","W","X","Y","Z","[","\\","]","^","_">>

\* the printable ASCII characters from a (97) to tilde (126)
AsciiHigh ==
    <<"a","b","c","d","e","f","g","h","i","j","k","l","m",
      "n","o","p","q","r","s","t","u","v","w","x","y","z",
      "{","|","}","~">>

\* ord(ch), for a character of AsciiLow or AsciiHigh
Ord ==
    [ch \in { AsciiLow[i] : i \in 1..Len(AsciiLow) }
             \cup { AsciiHigh[i] : i \in 1..Len(AsciiHigh) } |->
        IF \E i \in 1..Len(AsciiLow) : AsciiLow[i] = ch
        THEN 31 + CHOOSE i \in 1..Len(AsciiLow) : AsciiLow[i] = ch
        ELSE 96 + CHOOSE i \in 1..Len(AsciiHigh) : AsciiHigh[i] = ch]

Run(c, n) == [c |-> c, n |-> n]

\* the runs of a text written as runs that may be empty or repeat a character
RECURSIVE Norm(_)
Norm(rs) ==
    IF rs = <<>> THEN <<>>
    ELSE IF Head(rs).n = 0 THEN Norm(Tail(rs))
    ELSE LET rest == Norm(Tail(rs))
         IN  IF rest # <<>> /\ Head(rest).c = Head(rs).c
             THEN <<Run(Head(rs).c, Head(rs).n + Head(rest).n)>> \o Tail(rest)
             ELSE <<Head(rs)>> \o rest

\* the text spelled by a sequence of code points
Text(codes) == Norm([i \in 1..Len(codes) |-> Run(codes[i], 1)])

\* the text spelled by a sequence of ASCII characters
Str(chars) == Text([i \in 1..Len(chars) |-> Ord[chars[i]]])

\* chr(c) * n
Chr(c, n) == Norm(<<Run(c, n)>>)

\* ch * n, for an ASCII character
Rep(ch, n) == Chr(Ord[ch], n)

\* a + b
Cat(a, b) == Norm(a \o b)

\* len(s)
RECURSIVE len(_)
len(s) == IF s = <<>> THEN 0 ELSE Head(s).n + len(Tail(s))

\* The characters whose lower case is one other character: <<first, last,
\* step, delta>> stands for the code points first, first + step, ... up to
\* last, each of which has the lower case that lies delta further.
LowerRanges ==
  << <<65,90,1,32>>, <<192,214,1,32>>, <<216,222,1,32>>, <<256,302,2,1>>,
    <<306,310,2,1>>, <<313,327,2,1>>, <<330,374,2,1>>, <<376,376,1,-121>>,
    <<377,381,2,1>>, <<385,385,1,210>>, <<386,388,2,1>>, <<390,390,1,206>>,
    <<391,391,1,1>>, <<393,394,1,205>>, <<395,395,1,1>>, <<398,398,1,79>>,
    <<399,399,1,202>>, <<400,400,1,203>>, <<401,401,1,1>>, <<403,403,1,205>>,
    <<404,404,1,207>>, <<406,406,1,211>>, <<407,407,1,209>>, <<408,408,1,1>>,
    <<412,412,1,211>>, <<413,413,1,213>>, <<415,415,1,214>>, <<416,420,2,1>>,
    <<422,422,1,218>>, <<423,423,1,1>>, <<425,425,1,218>>, <<428,428,1,1>>,
    <<430,430,1,218>>, <<431,431,1,1>>, <<433,434,1,217>>, <<435,437,2,1>>,
    <<439,439,1,219>>, <<440,440,1,1>>, <<444,444,1,1>>, <<452,452,1,2>>,
    <<453,453,1,1>>, <<455,455,1,2>>, <<456,456,1,1>>, <<458,458,1,2>>,
    <<459,475,2,1>>, <<478,494,2,1>>, <<497,497,1,2>>, <<498,500,2,1>>,
    <<502,502,1,-97>>, <<503,503,1,-56>>, <<504,542,2,1>>,
    <<544,544,1,-130>>, <<546,562,2,1>>, <<570,570,1,10795>>,
    <<571,571,1,1>>, <<573,573,1,-163>>, <<574,574,1,10792>>,
    <<577,577,1,1>>, <<579,579,1,-195>>, <<580,580,1,69>>, <<581,581,1,71>>,
    <<582,590,2,1>>, <<880,882,2,1>>, <<886,886,1,1>>, <<895,895,1,116>>,
    <<902,902,1,38>>, <<904,906,1,37>>, <<908,908,1,64>>, <<910,911,1,63>>,
    <<913,929,1,32>>, <<931,939,1,32>>, <<975,975,1,8>>, <<984,1006,2,1>>,
    <<1012,1012,1,-60>>, <<1015,1015,1,1>>, <<1017,1017,1,-7>>,
    <<1018,1018,1,1>>, <<1021,1023,1,-130>>, <<1024,1039,1,80>>,
    <<1040,1071,1,32>>, <<1120,1152,2,1>>, <<1162,1214,2,1>>,
    <<1216,1216,1,15>>, <<1217,1229,2,1>>, <<1232,1326,2,1>>,
    <<1329,1366,1,48>>, <<4256,4293,1,7264>>, <<4295,4295,1,7264>>,
    <<4301,4301,1,7264>>, <<5024,5103,1,38864>>, <<5104,5109,1,8>>,
    <<7312,7354,1,-3008>>, <<7357,7359,1,-3008>>, <<7680,7828,2,1>>,
    <<7838,7838,1,-7615>>, <<7840,7934,2,1>>, <<7944,7951,1,-8>>,
    <<7960,7965,1,-8>>, <<7976,7983,1,-8>>, <<7992,7999,1,-8>>,
    <<8008,8013,1,-8>>, <<8025,8031,2,-8>>, <<8040,8047,1,-8>>,
    <<8072,8079,1,-8>>, <<8088,8095,1,-8>>, <<8104,8111,1,-8>>,
    <<8120,8121,1,-8>>, <<8122,8123,1,-74>>, <<8124,8124,1,-9>>,
    <<8136,8139,1,-86>>, <<8140,8140,1,-9>>, <<8152,8153,1,-8>>,
    <<8154,8155,1,-100>>, <<8168,8169,1,-8>>, <<8170,8171,1,-112>>,
    <<8172,8172,1,-7>>, <<8184,8185,1,-128>>, <<8186,8187,1,-126>>,
    <<8188,8188,1,-9>>, <<8486,8486,1,-7517>>, <<8490,8490,1,-8383>>,
    <<8491,8491,1,-8262>>, <<8498,8498,1,28>>, <<8544,8559,1,16>>,
    <<8579,8579,1,1>>, <<9398,9423,1,26>>, <<11264,11311,1,48>>,
    <<11360,11360,1,1>>, <<11362,11362,1,-10743>>, <<11363,11363,1,-3814>>,
    <<11364,11364,1,-10727>>, <<11367,11371,2,1>>, <<11373,11373,1,-10780>>,
    <<11374,11374,1,-10749>>, <<11375,11375,1,-10783>>,
    <<11376,11376,1,-10782>>, <<11378,11378,1,1>>, <<11381,11381,1,1>>,
    <<11390,11391,1,-10815>>, <<11392,11490,2,1>>, <<11499,11501,2,1>>,
    <<11506,11506,1,1>>, <<42560,42604,2,1>>, <<42624,42650,2,1>>,
    <<42786,42798,2,1>>, <<42802,42862,2,1>>, <<42873,42875,2,1>>,
    <<42877,42877,1,-35332>>, <<42878,42886,2,1>>, <<42891,42891,1,1>>,
    <<42893,42893,1,-42280>>, <<42896,42898,2,1>>, <<42902,42920,2,1>>,
    <<42922,42922,1,-42308>>, <<42923,42923,1,-42319>>,
    <<42924,42924,1,-42315>>, <<42925,42925,1,-42305>>,
    <<42926,42926,1,-42308>>, <<42928,42928,1,-42258>>,
    <<42929,42929,1,-42282>>, <<42930,42930,1,-42261>>,
    <<42931,42931,1,928>>, <<42932,42946,2,1>>, <<42948,42948,1,-48>>,
    <<42949,42949,1,-42307>>, <<42950,42950,1,-35384>>, <<42951,42953,2,1>>,
    <<42960,42960,1,1>>, <<42966,42968,2,1>>, <<42997,42997,1,1>>,
    <<65313,65338,1,32>>, <<66560,66599,1,40>>, <<66736,66771,1,40>>,
    <<66928,66938,1,39>>, <<66940,66954,1,39>>, <<66956,66962,1,39>>,
    <<66964,66965,1,39>>, <<68736,68786,1,64>>, <<71840,71871,1,32>>,
    <<93760,93791,1,32>>, <<125184,125217,1,34>> >>

\* the character whose lower case is more than one character: capital I
\* with dot above gives i and the combining dot above
LowerSpecial ==
  << <<304, <<105,775>>>> >>

\* the characters whose upper case is one other character
UpperRanges ==
  << <<97,122,1,-32>>, <<181,181,1,743>>, <<224,246,1,-32>>,
    <<248,254,1,-32>>, <<255,255,1,121>>, <<257,303,2,-1>>,
    <<305,305,1,-232>>, <<307,311,2,-1>>, <<314,328,2,-1>>, <<331,375,2,-1>>,
    <<378,382,2,-1>>, <<383,383,1,-300>>, <<384,384,1,195>>,
    <<387,389,2,-1>>, <<392,392,1,-1>>, <<396,396,1,-1>>, <<402,402,1,-1>>,
    <<405,405,1,97>>, <<409,409,1,-1>>, <<410,410,1,163>>, <<414,414,1,130>>,
    <<417,421,2,-1>>, <<424,424,1,-1>>, <<429,429,1,-1>>, <<432,432,1,-1>>,
    <<436,438,2,-1>>, <<441,441,1,-1>>, <<445,445,1,-1>>, <<447,447,1,56>>,
    <<453,453,1,-1>>, <<454,454,1,-2>>, <<456,456,1,-1>>, <<457,457,1,-2>>,
    <<459,459,1,-1>>, <<460,460,1,-2>>, <<462,476,2,-1>>, <<477,477,1,-79>>,
    <<479,495,2,-1>>, <<498,498,1,-1>>, <<499,499,1,-2>>, <<501,501,1,-1>>,
    <<505,543,2,-1>>, <<547,563,2,-1>>, <<572,572,1,-1>>,
    <<575,576,1,10815>>, <<578,578,1,-1>>, <<583,591,2,-1>>,
    <<592,592,1,10783>>, <<593,593,1,10780>>, <<594,594,1,10782>>,
    <<595,595,1,-210>>, <<596,596,1,-206>>, <<598,599,1,-205>>,
    <<601,601,1,-202>>, <<603,603,1,-203>>, <<604,604,1,42319>>,
    <<608,608,1,-205>>, <<609,609,1,42315>>, <<611,611,1,-207>>,
    <<613,613,1,42280>>, <<614,614,1,42308>>, <<616,616,1,-209>>,
    <<617,617,1,-211>>, <<618,618,1,42308>>, <<619,619,1,10743>>,
    <<620,620,1,42305>>, <<623,623,1,-211>>, <<625,625,1,10749>>,
    <<626,626,1,-213>>, <<629,629,1,-214>>, <<637,637,1,10727>>,
    <<640,640,1,-218>>, <<642,642,1,42307>>, <<643,643,1,-218>>,
    <<647,647,1,42282>>, <<648,648,1,-218>>, <<649,649,1,-69>>,
    <<650,651,1,-217>>, <<652,652,1,-71>>, <<658,658,1,-219>>,
    <<669,669,1,42261>>, <<670,670,1,42258>>, <<837,837,1,84>>,
    <<881,883,2,-1>>, <<887,887,1,-1>>, <<891,893,1,130>>, <<940,940,1,-38>>,
    <<941,943,1,-37>>, <<945,961,1,-32>>, <<962,962,1,-31>>,
    <<963,971,1,-32>>, <<972,972,1,-64>>, <<973,974,1,-63>>,
    <<976,976,1,-62>>, <<977,977,1,-57>>, <<981,981,1,-47>>,
    <<982,982,1,-54>>, <<983,983,1,-8>>, <<985,1007,2,-1>>,
    <<1008,1008,1,-86>>, <<1009,1009,1,-80>>, <<1010,1010,1,7>>,
    <<1011,1011,1,-116>>, <<1013,1013,1,-96>>, <<1016,1016,1,-1>>,
    <<1019,1019,1,-1>>, <<1072,1103,1,-32>>, <<1104,1119,1,-80>>,
    <<1121,1153,2,-1>>, <<1163,1215,2,-1>>, <<1218,1230,2,-1>>,
    <<1231,1231,1,-15>>, <<1233,1327,2,-1>>, <<1377,1414,1,-48>>,
    <<4304,4346,1,3008>>, <<4349,4351,1,3008>>, <<5112,5117,1,-8>>,
    <<7296,7296,1,-6254>>, <<7297,7297,1,-6253>>, <<7298,7298,1,-6244>>,
    <<7299,7300,1,-6242>>, <<7301,7301,1,-6243>>, <<7302,7302,1,-6236>>,
    <<7303,7303,1,-6181>>, <<7304,7304,1,35266>>, <<7545,7545,1,35332>>,
    <<7549,7549,1,3814>>, <<7566,7566,1,35384>>, <<7681,7829,2,-1>>,
    <<7835,7835,1,-59>>, <<7841,7935,2,-1>>, <<7936,7943,1,8>>,
    <<7952,7957,1,8>>, <<7968,7975,1,8>>, <<7984,7991,1,8>>,
    <<8000,8005,1,8>>, <<8017,8023,2,8>>, <<8032,8039,1,8>>,
    <<8048,8049,1,74>>, <<8050,8053,1,86>>, <<8054,8055,1,100>>,
    <<8056,8057,1,128>>, <<8058,8059,1,112>>, <<8060,8061,1,126>>,
    <<8112,8113,1,8>>, <<8126,8126,1,-7205>>, <<8144,8145,1,8>>,
    <<8160,8161,1,8>>, <<8165,8165,1,7>>, <<8526,8526,1,-28>>,
    <<8560,8575,1,-16>>, <<8580,8580,1,-1>>, <<9424,9449,1,-26>>,
    <<11312,11359,1,-48>>, <<11361,11361,1,-1>>, <<11365,11365,1,-10795>>,
    <<11366,11366,1,-10792>>, <<11368,11372,2,-1>>, <<11379,11379,1,-1>>,
    <<11382,11382,1,-1>>, <<11393,11491,2,-1>>, <<11500,11502,2,-1>>,
    <<11507,11507,1,-1>>, <<11520,11557,1,-7264>>, <<11559,11559,1,-7264>>,
    <<11565,11565,1,-7264>>, <<42561,42605,2,-1>>, <<42625,42651,2,-1>>,
    <<42787,42799,2,-1>>, <<42803,42863,2,-1>>, <<42874,42876,2,-1>>,
    <<42879,42887,2,-1>>, <<42892,42892,1,-1>>, <<42897,42899,2,-1>>,
    <<42900,42900,1,48>>, <<42903,42921,2,-1>>, <<42933,42947,2,-1>>,
    <<42952,42954,2,-1>>, <<42961,42961,1,-1>>, <<42967,42969,2,-1>>,
    <<42998,42998,1,-1>>, <<43859,43859,1,-928>>, <<43888,43967,1,-38864>>,
    <<65345,65370,1,-32>>, <<66600,66639,1,-40>>, <<66776,66811,1,-40>>,
    <<66967,66977,1,-39>>, <<66979,66993,1,-39>>, <<66995,67001,1,-39>>,
    <<67003,67004,1,-39>>, <<68800,68850,1,-64>>, <<71872,71903,1,-32>>,
    <<93792,93823,1,-32>>, <<125218,125251,1,-34>> >>

\* the characters whose upper case is more than one character (sharp s
\* gives SS, the ligature fi gives FI, ...)
UpperSpecial ==
  << <<223, <<83,83>>>>, <<329, <<700,78>>>>, <<496, <<74,780>>>>,
    <<912, <<921,776,769>>>>, <<944, <<933,776,769>>>>,
    <<1415, <<1333,1362>>>>, <<7830, <<72,817>>>>, <<7831, <<84,776>>>>,
    <<7832, <<87,778>>>>, <<7833, <<89,778>>>>, <<7834, <<65,702>>>>,
    <<8016, <<933,787>>>>, <<8018, <<933,787,768>>>>,
    <<8020, <<933,787,769>>>>, <<8022, <<933,787,834>>>>,
    <<8064, <<7944,921>>>>, <<8065, <<7945,921>>>>, <<8066, <<7946,921>>>>,
    <<8067, <<7947,921>>>>, <<8068, <<7948,921>>>>, <<8069, <<7949,921>>>>,
    <<8070, <<7950,921>>>>, <<8071, <<7951,921>>>>, <<8072, <<7944,921>>>>,
    <<8073, <<7945,921>>>>, <<8074, <<7946,921>>>>, <<8075, <<7947,921>>>>,
    <<8076, <<7948,921>>>>, <<8077, <<7949,921>>>>, <<8078, <<7950,921>>>>,
    <<8079, <<7951,921>>>>, <<8080, <<7976,921>>>>, <<8081, <<7977,921>>>>,
    <<8082, <<7978,921>>>>, <<8083, <<7979,921>>>>, <<8084, <<7980,921>>>>,
    <<8085, <<7981,921>>>>, <<8086, <<7982,921>>>>, <<8087, <<7983,921>>>>,
    <<8088, <<7976,921>>>>, <<8089, <<7977,921>>>>, <<8090, <<7978,921>>>>,
    <<8091, <<7979,921>>>>, <<8092, <<7980,921>>>>, <<8093, <<7981,921>>>>,
    <<8094, <<7982,921>>>>, <<8095, <<7983,921>>>>, <<8096, <<8040,921>>>>,
    <<8097, <<8041,921>>>>, <<8098, <<8042,921>>>>, <<8099, <<8043,921>>>>,
    <<8100, <<8044,921>>>>, <<8101, <<8045,921>>>>, <<8102, <<8046,921>>>>,
    <<8103, <<8047,921>>>>, <<8104, <<8040,921>>>>, <<8105, <<8041,921>>>>,
    <<8106, <<8042,921>>>>, <<8107, <<8043,921>>>>, <<8108, <<8044,921>>>>,
    <<8109, <<8045,921>>>>, <<8110, <<8046,921>>>>, <<8111, <<8047,921>>>>,
    <<8114, <<8122,921>>>>, <<8115, <<913,921>>>>, <<8116, <<902,921>>>>,
    <<8118, <<913,834>>>>, <<8119, <<913,834,921>>>>, <<8124, <<913,921>>>>,
    <<8130, <<8138,921>>>>, <<8131, <<919,921>>>>, <<8132, <<905,921>>>>,
    <<8134, <<919,834>>>>, <<8135, <<919,834,921>>>>, <<8140, <<919,921>>>>,
    <<8146, <<921,776,768>>>>, <<8147, <<921,776,769>>>>,
    <<8150, <<921,834>>>>, <<8151, <<921,776,834>>>>,
    <<8162, <<933,776,768>>>>, <<8163, <<933,776,769>>>>,
    <<8164, <<929,787>>>>, <<8166, <<933,834>>>>, <<8167, <<933,776,834>>>>,
    <<8178, <<8186,921>>>>, <<8179, <<937,921>>>>, <<8180, <<911,921>>>>,
    <<8182, <<937,834>>>>, <<8183, <<937,834,921>>>>, <<8188, <<937,921>>>>,
    <<64256, <<70,70>>>>, <<64257, <<70,73>>>>, <<64258, <<70,76>>>>,
    <<64259, <<70,70,73>>>>, <<64260, <<70,70,76>>>>, <<64261, <<83,84>>>>,
    <<64262, <<83,84>>>>, <<64275, <<1348,1350>>>>, <<64276, <<1348,1333>>>>,
    <<64277, <<1348,1339>>>>, <<64278, <<1358,1350>>>>,
    <<64279, <<1348,1341>>>> >>

\* the cased characters (Lowercase, Uppercase or titlecase letters):
\* <<first, last>> stands for the code points from first to last
CasedRanges ==
  << <<65,90>>, <<97,122>>, <<170,170>>, <<181,181>>, <<186,186>>,
    <<192,214>>, <<216,246>>, <<248,442>>, <<444,447>>, <<452,659>>,
    <<661,696>>, <<704,705>>, <<736,740>>, <<837,837>>, <<880,883>>,
    <<886,887>>, <<890,893>>, <<895,895>>, <<902,902>>, <<904,906>>,
    <<908,908>>, <<910,929>>, <<931,1013>>, <<1015,1153>>, <<1162,1327>>,
    <<1329,1366>>, <<1376,1416>>, <<4256,4293>>, <<4295,4295>>,
    <<4301,4301>>, <<4304,4346>>, <<4349,4351>>, <<5024,5109>>,
    <<5112,5117>>, <<7296,7304>>, <<7312,7354>>, <<7357,7359>>,
    <<7424,7615>>, <<7680,7957>>, <<7960,7965>>, <<7968,8005>>,
    <<8008,8013>>, <<8016,8023>>, <<8025,8025>>, <<8027,8027>>,
    <<8029,8029>>, <<8031,8061>>, <<8064,8116>>, <<8118,8124>>,
    <<8126,8126>>, <<8130,8132>>, <<8134,8140>>, <<8144,8147>>,
    <<8150,8155>>, <<8160,8172>>, <<8178,8180>>, <<8182,8188>>,
    <<8305,8305>>, <<8319,8319>>, <<8336,8348>>, <<8450,8450>>,
    <<8455,8455>>, <<8458,8467>>, <<8469,8469>>, <<8473,8477>>,
    <<8484,8484>>, <<8486,8486>>, <<8488,8488>>, <<8490,8493>>,
    <<8495,8500>>, <<8505,8505>>, <<8508,8511>>, <<8517,8521>>,
    <<8526,8526>>, <<8544,8575>>, <<8579,8580>>, <<9398,9449>>,
    <<11264,11492>>, <<11499,11502>>, <<11506,11507>>, <<11520,11557>>,
    <<11559,11559>>, <<11565,11565>>, <<42560,42605>>, <<42624,42653>>,
    <<42786,42887>>, <<42891,42894>>, <<42896,42954>>, <<42960,42961>>,
    <<42963,42963>>, <<42965,42969>>, <<42997,42998>>, <<43000,43002>>,
    <<43824,43866>>, <<43868,43880>>, <<43888,43967>>, <<64256,64262>>,
    <<64275,64279>>, <<65313,65338>>, <<65345,65370>>, <<66560,66639>>,
    <<66736,66771>>, <<66776,66811>>, <<66928,66938>>, <<66940,66954>>,
    <<66956,66962>>, <<66964,66965>>, <<66967,66977>>, <<66979,66993>>,
    <<66995,67001>>, <<67003,67004>>, <<67456,67456>>, <<67459,67461>>,
    <<67463,67504>>, <<67506,67514>>, <<68736,68786>>, <<68800,68850>>,
    <<71840,71903>>, <<93760,93823>>, <<119808,119892>>, <<119894,119964>>,
    <<119966,119967>>, <<119970,119970>>, <<119973,119974>>,
    <<119977,119980>>, <<119982,119993>>, <<119995,119995>>,
    <<119997,120003>>, <<120005,120069>>, <<120071,120074>>,
    <<120077,120084>>, <<120086,120092>>, <<120094,120121>>,
    <<120123,120126>>, <<120128,120132>>, <<120134,120134>>,
    <<120138,120144>>, <<120146,120485>>, <<120488,120512>>,
    <<120514,120538>>, <<120540,120570>>, <<120572,120596>>,
    <<120598,120628>>, <<120630,120654>>, <<120656,120686>>,
    <<120688,120712>>, <<120714,120744>>, <<120746,120770>>,
    <<120772,120779>>, <<122624,122633>>, <<122635,122654>>,
    <<125184,125251>>, <<127280,127305>>, <<127312,127337>>,
    <<127344,127369>> >>

\* the case-ignorable characters (marks, modifiers, format characters,
\* apostrophe, full stop, colon, ...)
CaseIgnorableRanges ==
  << <<39,39>>, <<46,46>>, <<58,58>>, <<94,94>>, <<96,96>>, <<168,168>>,
    <<173,173>>, <<175,175>>, <<180,180>>, <<183,184>>, <<688,879>>,
    <<884,885>>, <<890,890>>, <<900,901>>, <<903,903>>, <<1155,1161>>,
    <<1369,1369>>, <<1375,1375>>, <<1425,1469>>, <<1471,1471>>,
    <<1473,1474>>, <<1476,1477>>, <<1479,1479>>, <<1524,1524>>,
    <<1536,1541>>, <<1552,1562>>, <<1564,1564>>, <<1600,1600>>,
    <<1611,1631>>, <<1648,1648>>, <<1750,1757>>, <<1759,1768>>,
    <<1770,1773>>, <<1807,1807>>, <<1809,1809>>, <<1840,1866>>,
    <<1958,1968>>, <<2027,2037>>, <<2042,2042>>, <<2045,2045>>,
    <<2070,2093>>, <<2137,2139>>, <<2184,2184>>, <<2192,2193>>,
    <<2200,2207>>, <<2249,2306>>, <<2362,2362>>, <<2364,2364>>,
    <<2369,2376>>, <<2381,2381>>, <<2385,2391>>, <<2402,2403>>,
    <<2417,2417>>, <<2433,2433>>, <<2492,2492>>, <<2497,2500>>,
    <<2509,2509>>, <<2530,2531>>, <<2558,2558>>, <<2561,2562>>,
    <<2620,2620>>, <<2625,2626>>, <<2631,2632>>, <<2635,2637>>,
    <<2641,2641>>, <<2672,2673>>, <<2677,2677>>, <<2689,2690>>,
    <<2748,2748>>, <<2753,2757>>, <<2759,2760>>, <<2765,2765>>,
    <<2786,2787>>, <<2810,2815>>, <<2817,2817>>, <<2876,2876>>,
    <<2879,2879>>, <<2881,2884>>, <<2893,2893>>, <<2901,2902>>,
    <<2914,2915>>, <<2946,2946>>, <<3008,3008>>, <<3021,3021>>,
    <<3072,3072>>, <<3076,3076>>, <<3132,3132>>, <<3134,3136>>,
    <<3142,3144>>, <<3146,3149>>, <<3157,3158>>, <<3170,3171>>,
    <<3201,3201>>, <<3260,3260>>, <<3263,3263>>, <<3270,3270>>,
    <<3276,3277>>, <<3298,3299>>, <<3328,3329>>, <<3387,3388>>,
    <<3393,3396>>, <<3405,3405>>, <<3426,3427>>, <<3457,3457>>,
    <<3530,3530>>, <<3538,3540>>, <<3542,3542>>, <<3633,3633>>,
    <<3636,3642>>, <<3654,3662>>, <<3761,3761>>, <<3764,3772>>,
    <<3782,3782>>, <<3784,3789>>, <<3864,3865>>, <<3893,3893>>,
    <<3895,3895>>, <<3897,3897>>, <<3953,3966>>, <<3968,3972>>,
    <<3974,3975>>, <<3981,3991>>, <<3993,4028>>, <<4038,4038>>,
    <<4141,4144>>, <<4146,4151>>, <<4153,4154>>, <<4157,4158>>,
    <<4184,4185>>, <<4190,4192>>, <<4209,4212>>, <<4226,4226>>,
    <<4229,4230>>, <<4237,4237>>, <<4253,4253>>, <<4348,4348>>,
    <<4957,4959>>, <<5906,5908>>, <<5938,5939>>, <<5970,5971>>,
    <<6002,6003>>, <<6068,6069>>, <<6071,6077>>, <<6086,6086>>,
    <<6089,6099>>, <<6103,6103>>, <<6109,6109>>, <<6155,6159>>,
    <<6211,6211>>, <<6277,6278>>, <<6313,6313>>, <<6432,6434>>,
    <<6439,6440>>, <<6450,6450>>, <<6457,6459>>, <<6679,6680>>,
    <<6683,6683>>, <<6742,6742>>, <<6744,6750>>, <<6752,6752>>,
    <<6754,6754>>, <<6757,6764>>, <<6771,6780>>, <<6783,6783>>,
    <<6823,6823>>, <<6832,6862>>, <<6912,6915>>, <<6964,6964>>,
    <<6966,6970>>, <<6972,6972>>, <<6978,6978>>, <<7019,7027>>,
    <<7040,7041>>, <<7074,7077>>, <<7080,7081>>, <<7083,7085>>,
    <<7142,7142>>, <<7144,7145>>, <<7149,7149>>, <<7151,7153>>,
    <<7212,7219>>, <<7222,7223>>, <<7288,7293>>, <<7376,7378>>,
    <<7380,7392>>, <<7394,7400>>, <<7405,7405>>, <<7412,7412>>,
    <<7416,7417>>, <<7468,7530>>, <<7544,7544>>, <<7579,7679>>,
    <<8125,8125>>, <<8127,8129>>, <<8141,8143>>, <<8157,8159>>,
    <<8173,8175>>, <<8189,8190>>, <<8203,8207>>, <<8216,8217>>,
    <<8228,8228>>, <<8231,8231>>, <<8234,8238>>, <<8288,8292>>,
    <<8294,8303>>, <<8305,8305>>, <<8319,8319>>, <<8336,8348>>,
    <<8400,8432>>, <<11388,11389>>, <<11503,11505>>, <<11631,11631>>,
    <<11647,11647>>, <<11744,11775>>, <<11823,11823>>, <<12293,12293>>,
    <<12330,12333>>, <<12337,12341>>, <<12347,12347>>, <<12441,12446>>,
    <<12540,12542>>, <<40981,40981>>, <<42232,42237>>, <<42508,42508>>,
    <<42607,42610>>, <<42612,42621>>, <<42623,42623>>, <<42652,42655>>,
    <<42736,42737>>, <<42752,42785>>, <<42864,42864>>, <<42888,42890>>,
    <<42994,42996>>, <<43000,43001>>, <<43010,43010>>, <<43014,43014>>,
    <<43019,43019>>, <<43045,43046>>, <<43052,43052>>, <<43204,43205>>,
    <<43232,43249>>, <<43263,43263>>, <<43302,43309>>, <<43335,43345>>,
    <<43392,43394>>, <<43443,43443>>, <<43446,43449>>, <<43452,43453>>,
    <<43471,43471>>, <<43493,43494>>, <<43561,43566>>, <<43569,43570>>,
    <<43573,43574>>, <<43587,43587>>, <<43596,43596>>, <<43632,43632>>,
    <<43644,43644>>, <<43696,43696>>, <<43698,43700>>, <<43703,43704>>,
    <<43710,43711>>, <<43713,43713>>, <<43741,43741>>, <<43756,43757>>,
    <<43763,43764>>, <<43766,43766>>, <<43867,43871>>, <<43881,43883>>,
    <<44005,44005>>, <<44008,44008>>, <<44013,44013>>, <<64286,64286>>,
    <<64434,64450>>, <<65024,65039>>, <<65043,65043>>, <<65056,65071>>,
    <<65106,65106>>, <<65109,65109>>, <<65279,65279>>, <<65287,65287>>,
    <<65294,65294>>, <<65306,65306>>, <<65342,65342>>, <<65344,65344>>,
    <<65392,65392>>, <<65438,65439>>, <<65507,65507>>, <<65529,65531>>,
    <<66045,66045>>, <<66272,66272>>, <<66422,66426>>, <<67456,67461>>,
    <<67463,67504>>, <<67506,67514>>, <<68097,68099>>, <<68101,68102>>,
    <<68108,68111>>, <<68152,68154>>, <<68159,68159>>, <<68325,68326>>,
    <<68900,68903>>, <<69291,69292>>, <<69446,69456>>, <<69506,69509>>,
    <<69633,69633>>, <<69688,69702>>, <<69744,69744>>, <<69747,69748>>,
    <<69759,69761>>, <<69811,69814>>, <<69817,69818>>, <<69821,69821>>,
    <<69826,69826>>, <<69837,69837>>, <<69888,69890>>, <<69927,69931>>,
    <<69933,69940>>, <<70003,70003>>, <<70016,70017>>, <<70070,70078>>,
    <<70089,70092>>, <<70095,70095>>, <<70191,70193>>, <<70196,70196>>,
    <<70198,70199>>, <<70206,70206>>, <<70367,70367>>, <<70371,70378>>,
    <<70400,70401>>, <<70459,70460>>, <<70464,70464>>, <<70502,70508>>,
    <<70512,70516>>, <<70712,70719>>, <<70722,70724>>, <<70726,70726>>,
    <<70750,70750>>, <<70835,70840>>, <<70842,70842>>, <<70847,70848>>,
    <<70850,70851>>, <<71090,71093>>, <<71100,71101>>, <<71103,71104>>,
    <<71132,71133>>, <<71219,71226>>, <<71229,71229>>, <<71231,71232>>,
    <<71339,71339>>, <<71341,71341>>, <<71344,71349>>, <<71351,71351>>,
    <<71453,71455>>, <<71458,71461>>, <<71463,71467>>, <<71727,71735>>,
    <<71737,71738>>, <<71995,71996>>, <<71998,71998>>, <<72003,72003>>,
    <<72148,72151>>, <<72154,72155>>, <<72160,72160>>, <<72193,72202>>,
    <<72243,72248>>, <<72251,72254>>, <<72263,72263>>, <<72273,72278>>,
    <<72281,72283>>, <<72330,72342>>, <<72344,72345>>, <<72752,72758>>,
    <<72760,72765>>, <<72767,72767>>, <<72850,72871>>, <<72874,72880>>,
    <<72882,72883>>, <<72885,72886>>, <<73009,73014>>, <<73018,73018>>,
    <<73020,73021>>, <<73023,73029>>, <<73031,73031>>, <<73104,73105>>,
    <<73109,73109>>, <<73111,73111>>, <<73459,73460>>, <<78896,78904>>,
    <<92912,92916>>, <<92976,92982>>, <<92992,92995>>, <<94031,94031>>,
    <<94095,94111>>, <<94176,94177>>, <<94179,94180>>, <<110576,110579>>,
    <<110581,110587>>, <<110589,110590>>, <<113821,113822>>,
    <<113824,113827>>, <<118528,118573>>, <<118576,118598>>,
    <<119143,119145>>, <<119155,119170>>, <<119173,119179>>,
    <<119210,119213>>, <<119362,119364>>, <<121344,121398>>,
    <<121403,121452>>, <<121461,121461>>, <<121476,121476>>,
    <<121499,121503>>, <<121505,121519>>, <<122880,122886>>,
    <<122888,122904>>, <<122907,122913>>, <<122915,122916>>,
    <<122918,122922>>, <<123184,123197>>, <<123566,123566>>,
    <<123628,123631>>, <<125136,125142>>, <<125252,125259>>,
    <<127995,127999>>, <<917505,917505>>, <<917536,917631>>,
    <<917760,917999>> >>

\* the case mapping that follows ranges for the characters with a mapping of
\* one character and special for the others: each character that changes,
\* with the text that replaces it
CaseMap(ranges, special) ==
    [c \in UNION { { ranges[i][1] + ranges[i][3] * k :
                       k \in 0..((ranges[i][2] - ranges[i][1])
                                    \div ranges[i][3]) } :
                   i \in 1..Len(ranges) }
            \cup { special[i][1] : i \in 1..Len(special) } |->
        IF \E i \in 1..Len(special) : special[i][1] = c
        THEN Text(special[CHOOSE i \in 1..Len(special) : special[i][1] = c][2])
        ELSE LET r == ranges[CHOOSE i \in 1..Len(ranges) :
                               /\ ranges[i][1] <= c /\ c <= ranges[i][2]
                               /\ (c - ranges[i][1]) % ranges[i][3] = 0]
             IN  <<Run(c + r[4], 1)>>]

LowerMap == CaseMap(LowerRanges, LowerSpecial)
UpperMap == CaseMap(UpperRanges, UpperSpecial)

\* chr(c).lower(): a text of one or two characters
LowerChar(c) == IF c \in DOMAIN LowerMap THEN LowerMap[c] ELSE <<Run(c, 1)>>

\* chr(c).upper(): a text of one, two or three characters
UpperChar(c) == IF c \in DOMAIN UpperMap THEN UpperMap[c] ELSE <<Run(c, 1)>>

IsCased(c) ==
    \E i \in 1..Len(CasedRanges) :
        CasedRanges[i][1] <= c /\ c <= CasedRanges[i][2]

IsCaseIgnorable(c) ==
    \E i \in 1..Len(CaseIgnorableRanges) :
        CaseIgnorableRanges[i][1] <= c /\ c <= CaseIgnorableRanges[i][2]

\* The last capital sigma of run i of s is a final sigma: the nearest
\* character before it that is not case-ignorable is cased, and the nearest
\* such character after it, if there is one, is not.
FinalSigma(s, i) ==
    LET before == { j \in 1..(i - 1) : ~IsCaseIgnorable(s[j].c) }
        after == { j \in (i + 1)..Len(s) : ~IsCaseIgnorable(s[j].c) }
    IN  /\ \/ s[i].n > 1
           \/ /\ before # {}
              /\ IsCased(s[CHOOSE j \in before : \A k \in before : k <= j].c)
        /\ \/ after = {}
           \/ ~IsCased(s[CHOOSE j \in after : \A k \in after : j <= k].c)

\* t * n for a text t, as runs that are not yet merged
RECURSIVE Times(_, _)
Times(t, n) ==
    IF n = 0 \/ t = <<>> THEN <<>>
    ELSE IF Len(t) = 1 THEN <<Run(t[1].c, t[1].n * n)>>
    ELSE t \o Times(t, n - 1)

\* The runs of s from run i on with every character replaced by its lower
\* case, as runs not yet merged.  Capital sigma (931) gives small sigma
\* (963), and final small sigma (962) where it is a final sigma.
RECURSIVE LowerRuns(_, _)
LowerRuns(s, i) ==
    IF i > Len(s) THEN <<>>
    ELSE (IF s[i].c = 931
          THEN <<Run(963, s[i].n - 1),
                 Run(IF FinalSigma(s, i) THEN 962 ELSE 963, 1)>>
          ELSE Times(LowerChar(s[i].c), s[i].n))
         \o LowerRuns(s, i + 1)

\* every character replaced by its upper case, as runs not yet merged
RECURSIVE UpperRuns(_)
UpperRuns(s) ==
    IF s = <<>> THEN <<>>
    ELSE Times(UpperChar(Head(s).c), Head(s).n) \o UpperRuns(Tail(s))

\* str.lower()
lower(s) == Norm(LowerRuns(s, 1))

\* str.upper()
upper(s) == Norm(UpperRuns(s))

\* the characters for which str.isspace() is true: tab to carriage return,
\* the four separators, space, next line, no-break space, ogham space mark,
\* en quad to hair space, line and paragraph separator, narrow no-break
\* space, medium mathematical space, ideographic space
Whitespace ==
    { 9, 10, 11, 12, 13, 28, 29, 30, 31, 32, 133, 160, 5760, 8192, 8193,
      8194, 8195, 8196, 8197, 8198, 8199, 8200, 8201, 8202, 8232, 8233,
      8239, 8287, 12288 }

\* chr(c).isspace()
IsSpace(c) == c \in Whitespace

RECURSIVE lstrip(_)
lstrip(s) ==
    IF s # <<>> /\ IsSpace(Head(s).c) THEN lstrip(Tail(s)) ELSE s

RECURSIVE rstrip(_)
rstrip(s) ==
    IF s # <<>> /\ IsSpace(s[Len(s)].c)
    THEN rstrip(SubSeq(s, 1, Len(s) - 1)) ELSE s

\* str.strip(): leading and trailing whitespace removed, the inside kept
strip(s) == rstrip(lstrip(s))

\* The text can be encoded in UTF-8: it holds no surrogate (U+D800 to
\* U+DFFF).  input() gives a surrogate for a byte it cannot decode, and
\* sqlite3 raises UnicodeEncodeError when it binds such a text.
Encodable(s) == \A i \in 1..Len(s) : s[i].c \notin 55296..57343

\* the UTF-8 bytes of a code point
Utf8(c) ==
    IF c < 128 THEN <<c>>
    ELSE IF c < 2048 THEN <<192 + (c \div 64), 128 + (c % 64)>>
    ELSE IF c < 65536
    THEN <<224 + (c \div 4096), 128 + ((c \div 64) % 64), 128 + (c % 64)>>
    ELSE <<240 + (c \div 262144), 128 + ((c \div 4096) % 64),
           128 + ((c \div 64) % 64), 128 + (c % 64)>>

RECURSIVE EncodeRuns(_)
EncodeRuns(s) ==
    IF s = <<>> THEN <<>>
    ELSE Times(Text(Utf8(Head(s).c)), Head(s).n) \o EncodeRuns(Tail(s))

\* The value sqlite3 stores for a str bound to a TEXT column: its UTF-8
\* bytes, as runs of one byte.
Utf8Encode(s) == Norm(EncodeRuns(s))

\* byte i of the runs b
RECURSIVE ByteAt(_, _)
ByteAt(b, i) ==
    IF i <= Head(b).n THEN Head(b).c ELSE ByteAt(Tail(b), i - Head(b).n)

\* the runs b without their first k bytes
RECURSIVE DropBytes(_, _)
DropBytes(b, k) ==
    IF k = 0 THEN b
    ELSE IF Head(b).n > k THEN <<Run(Head(b).c, Head(b).n - k)>> \o Tail(b)
    ELSE DropBytes(Tail(b), k - Head(b).n)

RECURSIVE DecodeRuns(_)
DecodeRuns(b) ==
    IF b = <<>> THEN <<>>
    ELSE LET h == Head(b).c
         IN  IF h < 128 THEN <<Head(b)>> \o DecodeRuns(Tail(b))
             ELSE IF h < 224
             THEN <<Run((h - 192) * 64 + (ByteAt(b, 2) - 128), 1)>>
                  \o DecodeRuns(DropBytes(b, 2))
             ELSE IF h < 240
             THEN <<Run((h - 224) * 4096 + (ByteAt(b, 2) - 128) * 64
                        + (ByteAt(b, 3) - 128), 1)>>
                  \o DecodeRuns(DropBytes(b, 3))
             ELSE <<Run((h - 240) * 262144 + (ByteAt(b, 2) - 128) * 4096
                        + (ByteAt(b, 3) - 128) * 64 + (ByteAt(b, 4) - 128), 1)>>
                  \o DecodeRuns(DropBytes(b, 4))

\* the str a SELECT gives for the TEXT value b
Utf8Decode(b) == Norm(DecodeRuns(b))

\* a row as a SELECT gives it
Fetch(row) ==
    [f \in DOMAIN row |-> IF f \in {"id", "confidence"} THEN row[f]
                          ELSE Utf8Decode(row[f])]

\* the row of rows inserted last, as a SELECT gives it
Last(rows) == Fetch(rows[Len(rows)])

\* new is old with one more row, which a SELECT gives as rec
Added(new, old, rec) ==
    /\ Len(new) = Len(old) + 1
    /\ SubSeq(new, 1, Len(old)) = old
    /\ Last(new) = rec

S_quit == Str(<<"q","u","i","t">>)
S_report == Str(<<"r","e","p","o","r","t">>)
S_n == Str(<<"n">>)
S_phishing == Str(<<"p","h","i","s","h","i","n","g">>)
S_legitimate == Str(<<"l","e","g","i","t","i","m","a","t","e">>)

\* ['phishing', 'legitimate']
Labels == {S_phishing, S_legitimate}

(***************************************************************************)
(* The data set.  emails.csv is described by what the script reads of it:  *)
(* whether it can be read, its columns, how many rows carry each label,    *)
(* and the terms its texts yield once stop words are removed.              *)
(***************************************************************************)
Csv(r, cols, p, l, o, t) ==
    [readable |-> r, columns |-> cols, nP |-> p, nL |-> l, nOther |-> o,
     terms |-> t]

Datasets ==
    { Csv(FALSE, {}, 0, 0, 0, {}),                      \* no such file
      Csv(TRUE, {"text"}, 0, 0, 0, {"a"}),              \* no label column
      Csv(TRUE, {"label"}, 5, 5, 0, {}),                \* no text column
      Csv(TRUE, {"text", "label"}, 5, 4, 1, {"a"}),     \* a label "spam"
      Csv(TRUE, {"text", "label"}, 0, 0, 0, {}),        \* header only
      Csv(TRUE, {"text", "label"}, 1, 1, 0, {"a"}),     \* one row per class
      Csv(TRUE, {"text", "label"}, 5, 5, 0, {}),        \* stop words only
      Csv(TRUE, {"text", "label"}, 5, 5, 0, {"a"}),     \* five rows per class
      Csv(TRUE, {"text", "label"}, 4, 0, 0, {"a"}) }    \* phishing only

NoSplit == [n_train |-> 0, n_test |-> 0, trainP |-> 0, trainL |-> 0]
NoModel == [classes |-> <<>>, p_zero |-> 0, p_nonzero |-> 0]

\* the validation testing the columns only
ValidData_ColumnsOnly(d) == {"text", "label"} \subseteq d.columns

\* lines 19-22: the two checks that raise ValueError
ValidData(d) ==
    /\ {"text", "label"} \subseteq d.columns
    /\ d.nOther = 0

\* sklearn _approximate_mode for the two label counts: the draws are shared in
\* proportion, and a draw left over goes to the larger remainder (the random
\* generator settles a tie).
ApproxMode(cP, cL, draws) ==
    LET n == cP + cL
        fP == (cP * draws) \div n
        fL == (cL * draws) \div n
        rP == (cP * draws) % n
        rL == (cL * draws) % n
    IN  IF fP + fL = draws THEN { <<fP, fL>> }
        ELSE (IF rP >= rL THEN { <<fP + 1, fL>> } ELSE {})
             \cup (IF rL >= rP THEN { <<fP, fL + 1>> } ELSE {})

NClasses(d) == (IF d.nP > 0 THEN 1 ELSE 0) + (IF d.nL > 0 THEN 1 ELSE 0)

\* ceil(test_size * n_samples), exact for the row counts of Datasets
NTest(n) == (TestPct * n + 99) \div 100

\* train_test_split(..., test_size=0.2, stratify=y) raises ValueError when a
\* subset would be empty, when a class has a single member, or when a subset
\* is smaller than the number of classes.
SplitFails(d) ==
    LET n == d.nP + d.nL
    IN  \/ n = 0
        \/ n - NTest(n) = 0
        \/ (d.nP > 0 /\ d.nP < 2) \/ (d.nL > 0 /\ d.nL < 2)
        \/ n - NTest(n) < NClasses(d)
        \/ NTest(n) < NClasses(d)

\* classes_ of the fitted forest: the labels of y_train, sorted
ClassesOf(sp) ==
    (IF sp.trainL > 0 THEN <<S_legitimate>> ELSE <<>>) \o
    (IF sp.trainP > 0 THEN <<S_phishing>> ELSE <<>>)

\* What the fit may produce: the forest's averaged probability of phishing
\* for the all-zero vector and for any other vector, in 1/PScale.
ForestChoices == { <<50000, 87654>>, <<33333, 20000>> }

\* lines 39-41: the splits train_test_split can give for a data set
SplitsOf(d) ==
    LET n == d.nP + d.nL
    IN  { [n_train |-> n - NTest(n), n_test |-> NTest(n),
           trainP |-> tr[1], trainL |-> tr[2]] :
          tr \in ApproxMode(d.nP, d.nL, n - NTest(n)) }

\* lines 58-59: the forests the fit can give for a training split
FittedModels(sp) ==
    IF Len(ClassesOf(sp)) = 1
    THEN { [classes |-> ClassesOf(sp), p_zero |-> PScale, p_nonzero |-> PScale] }
    ELSE { [classes |-> ClassesOf(sp), p_zero |-> f[1], p_nonzero |-> f[2]] :
           f \in ForestChoices }

(***************************************************************************)
(* The store as earlier sessions left it.                                  *)
(***************************************************************************)
PriorDetections(k) ==
    [i \in 1..k |-> [id |-> i, email_text |-> Utf8Encode(Rep("b", MinLen)),
                     prediction |-> Utf8Encode(S_legitimate),
                     confidence |-> 9000]]
PriorFalsePositives(k) ==
    [i \in 1..k |-> [id |-> i, email_text |-> Utf8Encode(Rep("b", MinLen)),
                     actual_label |-> Utf8Encode(S_phishing)]]

\* AUTOINCREMENT: one more than the largest rowid ever used
NextId(rows) == IF rows = <<>> THEN 1 ELSE rows[Len(rows)].id + 1

Msg(m, t, a, b) == [msg |-> m, text |-> t, a |-> a, b |-> b]
Say(m) == Msg(m, <<>>, 0, 0)

NoInput == [kind |-> "none", text |-> <<>>]
Line(t) == [kind |-> "line", text |-> t]
EOF == [kind |-> "eof", text |-> <<>>]
Interrupt == [kind |-> "interrupt", text |-> <<>>]

Init ==
    /\ pc = "Idle"
    /\ emails_csv \in Datasets
    /\ split = NoSplit
    /\ vectorizer = {}
    /\ model = NoModel
    /\ conn = "none"
    /\ \E k \in {0, InitRows} :
          /\ detections = PriorDetections(k)
          /\ false_positives = PriorFalsePositives(k)
          /\ committed = [det |-> k, fp |-> k]
    /\ start = [det |-> 0, fp |-> 0]
    /\ written = [det |-> 0, fp |-> 0]
    /\ stdin = NoInput
    /\ consumed = 0
    /\ email = <<>>
    /\ prediction = <<>>
    /\ confidence = 0
    /\ out = Say("Banner")

(***************************************************************************)
(* Start-up, lines 12-116.                                                 *)
(***************************************************************************)
\* line 15: pd.read_csv; a failure is caught at line 28 and the script exits
LoadData ==
    /\ pc = "Idle"
    /\ IF emails_csv.readable
       THEN pc' = "Loaded" /\ out' = Say("DataLoaded")
       ELSE pc' = "Failed" /\ out' = Say("ErrorLoadingData")
    /\ UNCHANGED <<emails_csv, split, vectorizer, model, conn, detections,
                   false_positives, committed, start, written, stdin, consumed,
                   email, prediction, confidence>>

\* lines 19-30
ValidateData ==
    /\ pc = "Loaded"
    /\ IF ValidData(emails_csv)
       THEN /\ pc' = "Validated"
            /\ out' = Msg(IF emails_csv.nP + emails_csv.nL + emails_csv.nOther
                              < SmallData
                           THEN "WarningAndTotals" ELSE "Totals",
                           <<>>, emails_csv.nP, emails_csv.nL)
       ELSE pc' = "Failed" /\ out' = Say("ErrorLoadingData")
    /\ UNCHANGED <<emails_csv, split, vectorizer, model, conn, detections,
                   false_positives, committed, start, written, stdin, consumed,
                   email, prediction, confidence>>

\* lines 35-44; a ValueError of train_test_split is not caught
SplitData ==
    /\ pc = "Validated"
    /\ IF SplitFails(emails_csv)
       THEN pc' = "Crashed" /\ out' = Say("Traceback") /\ split' = split
       ELSE \E sp \in SplitsOf(emails_csv) :
               /\ split' = sp
               /\ pc' = "Split"
               /\ out' = out
    /\ UNCHANGED <<emails_csv, vectorizer, model, conn, detections,
                   false_positives, committed, start, written, stdin, consumed,
                   email, prediction, confidence>>

\* lines 46-59; fit_transform raises ValueError on an empty vocabulary
Fit ==
    /\ pc = "Split"
    /\ IF emails_csv.terms = {}
       THEN /\ pc' = "Crashed" /\ out' = Say("Traceback")
            /\ UNCHANGED <<vectorizer, model>>
       ELSE /\ vectorizer' = emails_csv.terms
            /\ model' \in FittedModels(split)
            /\ pc' = "Fitted"
            /\ out' = out
    /\ UNCHANGED <<emails_csv, split, conn, detections, false_positives,
                   committed, start, written, stdin, consumed,
                   email, prediction, confidence>>

\* lines 64-79: connect, create the two tables if they are missing, commit.
\* raised is the line that raises sqlite3.Error, which is not caught, or 0
\* when none does; when connect raises, conn is never bound.
OpenStore ==
    /\ pc = "Fitted"
    /\ \E raised \in {0, 64, 67, 74, 79} :
          /\ conn' = IF raised = 64 THEN conn ELSE "open"
          /\ IF raised = 0
             THEN /\ pc' = "Connected"
                  /\ start' = [det |-> Len(detections), fp |-> Len(false_positives)]
                  /\ out' = out
             ELSE pc' = "Crashed" /\ out' = Say("Traceback") /\ start' = start
    /\ UNCHANGED <<emails_csv, split, vectorizer, model, detections,
                   false_positives, committed, written, stdin, consumed,
                   email,
                   prediction, confidence>>

\* lines 111-116
Evaluate ==
    /\ pc = "Connected"
    /\ out' = IF split.n_test > 0 THEN Say("ClassificationReport")
              ELSE Say("EvaluationSkipped")
    /\ pc' = "Evaluated"
    /\ UNCHANGED <<emails_csv, split, vectorizer, model, conn, detections,
                   false_positives, committed, start, written, stdin, consumed,
                   email, prediction, confidence>>

\* lines 121-122
StartSession ==
    /\ pc = "Evaluated"
    /\ out' = Say("InteractiveMode")
    /\ pc' = "Prompting"
    /\ UNCHANGED <<emails_csv, split, vectorizer, model, conn, detections,
                   false_positives, committed, start, written, stdin, consumed,
                   email, prediction, confidence>>

(***************************************************************************)
(* The prediction service, lines 84-94.                                    *)
(***************************************************************************)
\* the characters of a text
Chars(text) == { text[i].c : i \in 1..Len(text) }

\* vectorizer.transform([email]): the dimensions that are not zero.  The
\* vocabulary is fixed and the text is lower-cased before it is split into
\* terms; a text without a known term gives the all-zero vector.
transform(text) == { t \in vectorizer : Ord[t] \in Chars(lower(text)) }

\* model.predict_proba(vec)[0]: one probability per class of classes_
predict_proba(vec) ==
    IF Len(model.classes) = 1 THEN <<PScale>>
    ELSE LET p == IF vec = {} THEN model.p_zero ELSE model.p_nonzero
         IN  <<PScale - p, p>>

SeqMax(q) == CHOOSE m \in { q[i] : i \in 1..Len(q) } :
                \A i \in 1..Len(q) : q[i] <= m

\* numpy argmax: the first index holding the maximum
ArgMax(q) == CHOOSE i \in 1..Len(q) :
                /\ q[i] = SeqMax(q)
                /\ \A j \in 1..(i-1) : q[j] < q[i]

\* predict answering the first class of classes_
predict_FirstClass(vec) == model.classes[1]

\* model.predict(vec)[0]
predict(vec) == model.classes[ArgMax(predict_proba(vec))]

(***************************************************************************)
(* Binary floating point.  A natural number is written as its binary       *)
(* digits, the most significant first; a double is [m, e] and stands for   *)
(* m * 2^e, where m has Mantissa digits and starts with 1, or is empty     *)
(* for 0.  Every operation rounds to nearest, ties to even.                *)
(***************************************************************************)
Mantissa == 53

\* the digits handled in one step of a product or a quotient
Chunk == 14

RECURSIVE Bits(_)
Bits(n) == IF n = 0 THEN <<>> ELSE Bits(n \div 2) \o <<n % 2>>

RECURSIVE BitsValue(_)
BitsValue(digits) ==
    IF digits = <<>> THEN 0
    ELSE 2 * BitsValue(SubSeq(digits, 1, Len(digits) - 1)) + digits[Len(digits)]

\* n zeros, none when n is not positive
Zeros(n) == IF n <= 0 THEN <<>> ELSE [i \in 1..n |-> 0]

\* n written with exactly width digits
Digits(n, width) == LET digits == Bits(n) IN Zeros(width - Len(digits)) \o digits

\* digits without its leading zeros
StripZeros(digits) ==
    LET ones == { i \in 1..Len(digits) : digits[i] = 1 }
    IN  IF ones = {} THEN <<>>
        ELSE SubSeq(digits, CHOOSE i \in ones : \A j \in ones : i <= j, Len(digits))

\* num + 1
Succ(num) ==
    LET zeros == { i \in 1..Len(num) : num[i] = 0 }
    IN  IF zeros = {} THEN <<1>> \o Zeros(Len(num))
        ELSE LET last == CHOOSE i \in zeros : \A j \in zeros : j <= i
             IN  SubSeq(num, 1, last - 1) \o <<1>> \o Zeros(Len(num) - last)

\* factor * k + carry, for a small k, a chunk of digits at a time
RECURSIVE TimesSmall(_, _, _)
TimesSmall(factor, k, carry) ==
    IF factor = <<>> THEN Bits(carry)
    ELSE LET width == IF Len(factor) < Chunk THEN Len(factor) ELSE Chunk
             low == SubSeq(factor, Len(factor) - width + 1, Len(factor))
             v == BitsValue(low) * k + carry
         IN  TimesSmall(SubSeq(factor, 1, Len(factor) - width), k, v \div 2^width)
                 \o Digits(v % 2^width, width)

\* the double nearest to significand * 2^exponent
Float(significand, exponent) ==
    LET s == StripZeros(significand)
        extra == Len(s) - Mantissa
    IN  IF s = <<>> THEN [m |-> <<>>, e |-> 0]
        ELSE IF extra <= 0 THEN [m |-> s \o Zeros(-extra), e |-> exponent + extra]
        ELSE LET keep == SubSeq(s, 1, Mantissa)
                 rest == SubSeq(s, Mantissa + 1, Len(s))
                 up == /\ rest[1] = 1
                       /\ \/ \E i \in 2..Len(rest) : rest[i] = 1
                          \/ keep[Mantissa] = 1
                 r == IF up THEN Succ(keep) ELSE keep
             IN  IF Len(r) > Mantissa
                 THEN [m |-> SubSeq(r, 1, Mantissa), e |-> exponent + extra + 1]
                 ELSE [m |-> r, e |-> exponent + extra]

\* the binary digits of r / q after the point, for r < q: chunks of them,
\* and a last digit that tells whether anything is left
RECURSIVE Quotient(_, _, _)
Quotient(r, q, chunks) ==
    IF chunks = 0 THEN <<IF r > 0 THEN 1 ELSE 0>>
    ELSE Digits((r * 2^Chunk) \div q, Chunk) \o Quotient((r * 2^Chunk) % q, q, chunks - 1)

\* the chunks that hold the digits of r / q a double keeps: r / q >= 1 / q
\* has fewer leading zeros than q has digits, then come a mantissa and the
\* digit after it
QuotientChunks(q) == (Len(Bits(q)) + Mantissa + 1) \div Chunk + 1

\* p / q as a double, for natural numbers p and q
FloatDiv(p, q) ==
    Float(Bits(p \div q) \o Quotient(p % q, q, QuotientChunks(q)),
          -(Chunk * QuotientChunks(q) + 1))

\* f * k as a double, for a small natural number k
FloatTimes(f, k) ==
    IF f.m = <<>> THEN f ELSE Float(TimesSmall(f.m, k, 0), f.e)

\* rint(f) as an integer, for 0 <= f < 2^30
Rint(f) ==
    IF f.m = <<>> THEN 0
    ELSE LET places == -f.e
             digits == Zeros(places + 1 - Len(f.m)) \o f.m
             whole == BitsValue(SubSeq(digits, 1, Len(digits) - places))
             frac == SubSeq(digits, Len(digits) - places + 1, Len(digits))
             up == /\ frac[1] = 1
                   /\ \/ \E i \in 2..places : frac[i] = 1
                      \/ whole % 2 = 1
         IN  IF up THEN whole + 1 ELSE whole

\* round(proba * 100, 2), in hundredths of a percent, for the probability
\* p / PScale.  proba is a numpy.float64, and so is proba * 100; its round
\* to two decimals multiplies by 100, rounds to the nearest integer and
\* divides by 100.
Round2(p) == Rint(FloatTimes(FloatTimes(FloatDiv(p, PScale), 100), 100))

\* the probabilities a fitted forest gives to a class
Votes ==
    UNION { {f[1], f[2], PScale - f[1], PScale - f[2]} : f \in ForestChoices }
    \cup {PScale}

\* Round2 of these probabilities, computed once
Round2OfVotes == [p \in Votes |-> Round2(p)]

\* line 94: round(proba * 100, 2)
Confidence(p) == IF p \in Votes THEN Round2OfVotes[p] ELSE Round2(p)

\* a Python value: a str with its text, or something that is no str
PyStr(t) == [type |-> "str", text |-> t]
PyNone == [type |-> "NoneType", text |-> <<>>]

\* raise ValueError(e): nothing reaches the vectorizer
Raise(e) == [kind |-> e, prediction |-> <<>>, confidence |-> 0, seen |-> <<>>]

\* analyze_email testing the length before the emptiness
analyze_email_LengthFirst(v) ==
    IF v.type = "str" /\ len(v.text) > MaxLen
    THEN Raise("Email too long (max 1000 chars)")
    ELSE IF v.type # "str" \/ strip(v.text) = <<>> THEN Raise("Empty email text")
    ELSE LET vec == transform(v.text)
         IN  [kind |-> "ok", prediction |-> predict(vec),
              confidence |-> Confidence(SeqMax(predict_proba(vec))),
              seen |-> v.text]

\* analyze_email without the length limit
analyze_email_NoLimit(v) ==
    IF v.type # "str" \/ strip(v.text) = <<>> THEN Raise("Empty email text")
    ELSE LET vec == transform(v.text)
         IN  [kind |-> "ok", prediction |-> predict(vec),
              confidence |-> Confidence(SeqMax(predict_proba(vec))),
              seen |-> v.text]

\* analyze_email(email), lines 84-94; seen is the text handed to
\* vectorizer.transform
analyze_email(v) ==
    IF v.type # "str" \/ strip(v.text) = <<>> THEN Raise("Empty email text")
    ELSE IF len(v.text) > MaxLen THEN Raise("Email too long (max 1000 chars)")
    ELSE LET vec == transform(v.text)
         IN  [kind |-> "ok", prediction |-> predict(vec),
              confidence |-> Confidence(SeqMax(predict_proba(vec))),
              seen |-> v.text]

(***************************************************************************)
(* The store writes.                                                       *)
(***************************************************************************)
\* the insert storing the label as it is printed, in capitals
InsertDetection_StoresPrinted(rows, e, p, c) ==
    Append(rows, [id |-> NextId(rows), email_text |-> Utf8Encode(e),
                  prediction |-> Utf8Encode(upper(p)), confidence |-> c])

\* lines 102-103: INSERT INTO detections ...; the two texts are stored as
\* UTF-8
InsertDetection(rows, e, p, c) ==
    Append(rows, [id |-> NextId(rows), email_text |-> Utf8Encode(e),
                  prediction |-> Utf8Encode(p), confidence |-> c])

\* the insert storing the predicted label instead of the corrected one
InsertFalsePositive_StoresPrediction(rows, e, a) ==
    Append(rows, [id |-> NextId(rows), email_text |-> Utf8Encode(e),
                  actual_label |-> Utf8Encode(prediction)])

\* lines 154-155: INSERT INTO false_positives ...
InsertFalsePositive(rows, e, a) ==
    Append(rows, [id |-> NextId(rows), email_text |-> Utf8Encode(e),
                  actual_label |-> Utf8Encode(a)])

\* What an INSERT and the commit after it may do.  "stored": both succeed.
\* "rejected": the INSERT raises and the transaction is as it was.
\* "pending": the INSERT succeeds and the commit raises; the row stays in the
\* open transaction.  "rolled back": sqlite answers the error by rolling the
\* open transaction back.
WriteOutcomes == {"stored", "rejected", "pending", "rolled back"}

\* the two tables and the rows of them that are committed
Tables(det, fp, n) == [detections |-> det, false_positives |-> fp, committed |-> n]

Store == Tables(detections, false_positives, committed)

\* conn.commit(): every row of the open transaction is in the file for good
Commit(t) ==
    [t EXCEPT !.committed = [det |-> Len(t.detections),
                             fp |-> Len(t.false_positives)]]

\* the open transaction given up, by sqlite or by conn.close()
Rollback(t) ==
    [t EXCEPT !.detections = SubSeq(@, 1, t.committed.det),
              !.false_positives = SubSeq(@, 1, t.committed.fp)]

\* the tables after an INSERT and a commit: inserted is before with the row
Write(before, inserted, outcome) ==
    CASE outcome = "stored" -> Commit(inserted)
      [] outcome = "pending" -> inserted
      [] outcome = "rejected" -> before
      [] outcome = "rolled back" -> Rollback(before)

\* save_to_db printing nothing when the write fails
save_to_db_Silent(e, p, c, outcome) ==
    IF e = <<>> \/ p = <<>>
    THEN [store |-> Store, warn |-> "SkippingSave", stored |-> FALSE,
          raised |-> ""]
    ELSE IF ~Encodable(e) \/ ~Encodable(p)
    THEN [store |-> Store, warn |-> "", stored |-> FALSE,
          raised |-> "UnicodeEncodeError"]
    ELSE [store |-> Write(Store, [Store EXCEPT !.detections =
                                     InsertDetection(@, e, p, c)], outcome),
          warn |-> "", stored |-> outcome = "stored", raised |-> ""]

\* save_to_db(email, prediction, confidence), lines 96-106.  Gives the
\* tables, the warning printed, whether the row was stored, and the
\* exception that leaves the function: a text that cannot be encoded makes
\* cursor.execute raise UnicodeEncodeError before the statement is run, and
\* line 105 catches sqlite3.Error only.
save_to_db(e, p, c, outcome) ==
    IF e = <<>> \/ p = <<>>
    THEN [store |-> Store, warn |-> "SkippingSave", stored |-> FALSE,
          raised |-> ""]
    ELSE IF ~Encodable(e) \/ ~Encodable(p)
    THEN [store |-> Store, warn |-> "", stored |-> FALSE,
          raised |-> "UnicodeEncodeError"]
    ELSE [store |-> Write(Store, [Store EXCEPT !.detections =
                                     InsertDetection(@, e, p, c)], outcome),
          warn |-> IF outcome = "stored" THEN "" ELSE "DatabaseError",
          stored |-> outcome = "stored", raised |-> ""]

(***************************************************************************)
(* What standard input may deliver to each of the three input() calls.     *)
(***************************************************************************)
\* core as it is, and with MaxPad whitespace characters shared between its
\* two ends: spaces in front, carriage returns behind
Pads(core) ==
    { core } \cup { Cat(Rep(" ", i), Cat(core, Chr(13, MaxPad - i))) :
                      i \in 0..MaxPad }

\* core with MaxPad no-break spaces in front and as many tabs behind
Wrapped(core) == Cat(Chr(160, MaxPad), Cat(core, Chr(9, MaxPad)))

\* the texts the session is given to classify: ten characters with inner
\* whitespace and no known term, and MaxLen characters with a known term
T_short == Cat(Rep("b", 4), Cat(Rep(" ", 2), Cat(Rep("b", 3), Chr(233, 1))))
T_long == Rep("a", MaxLen)

\* a text sqlite3 cannot encode: input() gives the surrogate U+DCFF for the
\* byte 0xFF
T_surrogate == Cat(Rep("a", MinLen), Chr(56575, 1))

\* among them two tabs, QuIt between a space and a carriage return, QU
\* followed by capital I with dot above and T
PromptLines ==
    { <<>>, Chr(9, 2), S_quit,
      Cat(Rep(" ", MaxPad), Cat(Str(<<"Q","u","I","t">>), Chr(13, MaxPad))),
      Text(<<81, 85, 304, 84>>), S_report, upper(S_report),
      Str(<<"q","u","i","t"," ","n","o","w">>),
      Wrapped(Rep("a", MinLen - 1)), T_short, Wrapped(T_long),
      Rep("a", MaxLen + 1), T_surrogate }

PromptInputs == { Line(t) : t \in PromptLines } \cup {EOF, Interrupt}

FeedbackInputs ==
    { Line(t) : t \in { S_n, Str(<<"N">>), Str(<<"y">>), Cat(S_n, Chr(13, 1)),
                        S_quit, S_report } }
    \cup {EOF, Interrupt}

LabelInputs ==
    { Line(t) : t \in { S_phishing,
                        Cat(Rep(" ", 1), Cat(upper(S_legitimate), Chr(13, 1))),
                        Str(<<"s","p","a","m">>), S_report, S_quit } }
    \cup {EOF, Interrupt}

(***************************************************************************)
(* The interactive loop, lines 124-169.                                    *)
(***************************************************************************)
\* Command comparing the line with quit and report as they are typed
Command_CaseSensitive(e) ==
    IF e = S_quit THEN "quit"
    ELSE IF e = S_report THEN "report"
    ELSE IF e = <<>> THEN "empty"
    ELSE IF len(e) < MinLen THEN "short"
    ELSE "analyze"

\* Command with the length test off by one
Command_OffByOne(e) ==
    IF lower(e) = S_quit THEN "quit"
    ELSE IF lower(e) = S_report THEN "report"
    ELSE IF e = <<>> THEN "empty"
    ELSE IF len(e) < MinLen - 1 THEN "short"
    ELSE "analyze"

\* lines 127-142: what the loop does with the stripped line
Command(e) ==
    LET word == lower(e)
    IN  IF word = S_quit THEN "quit"
        ELSE IF word = S_report THEN "report"
        ELSE IF e = <<>> THEN "empty"
        ELSE IF len(e) < MinLen THEN "short"
        ELSE "analyze"

\* the answer trimmed before it is compared
IsNegative_Trimmed(feedback) == strip(feedback) = S_n

\* line 151
IsNegative(feedback) == feedback = S_n

\* line 153
ValidLabel(actual_label) == actual_label \in Labels

\* what input() can give: standard input holds MaxLines lines at most, and
\* at its end input() raises EOFError
Available(inputs) == IF consumed < MaxLines THEN inputs ELSE {EOF, Interrupt}

\* the lines read once input() has given in
Consumed(in) == IF in.kind = "line" THEN consumed + 1 ELSE consumed

\* lines 125-142, and lines 167-169 after the break.  EOFError and
\* KeyboardInterrupt raised by this input() are outside the try statement.
Prompt ==
    /\ pc = "Prompting"
    /\ \E in \in Available(PromptInputs) :
          /\ stdin' = in
          /\ consumed' = Consumed(in)
          /\ IF in.kind # "line"
             THEN /\ pc' = "Crashed" /\ out' = Say("Traceback")
                  /\ UNCHANGED <<email, conn, detections, false_positives>>
             ELSE \E e \in {strip(in.text)} : \E cmd \in {Command(e)} :
                      /\ email' = e
                      /\ conn' = IF cmd = "quit" THEN "closed" ELSE conn
                      /\ detections' = IF cmd = "quit"
                                       THEN Rollback(Store).detections
                                       ELSE detections
                      /\ false_positives' = IF cmd = "quit"
                                            THEN Rollback(Store).false_positives
                                            ELSE false_positives
                      /\ pc' = CASE cmd = "quit" -> "Terminated"
                                 [] cmd = "report" -> "Reporting"
                                 [] cmd = "analyze" -> "Analyzing"
                                 [] OTHER -> "Prompting"
                      /\ out' = CASE cmd = "quit" -> Say("SessionEnded")
                                  [] cmd = "report" -> Say("DatabaseSummary")
                                  [] cmd = "empty" -> Say("ErrorEmptyInput")
                                  [] cmd = "short" -> Say("ErrorEmailTooShort")
                                  [] OTHER -> out
    /\ UNCHANGED <<emails_csv, split, vectorizer, model, committed, start,
                   written, prediction, confidence>>

\* lines 131-134: the two SELECT COUNT(*) are outside the try statement;
\* failed = 1 or 2 tells which of them raises sqlite3.Error
Report ==
    /\ pc = "Reporting"
    /\ \E failed \in 0..2 :
          /\ pc' = IF failed = 0 THEN "Prompting" ELSE "Crashed"
          /\ out' = CASE failed = 0 -> Msg("Report", <<>>, Len(detections),
                                           Len(false_positives))
                      [] failed = 1 -> Say("Traceback")
                      [] failed = 2 -> Msg("Traceback", <<>>, Len(detections), 0)
    /\ UNCHANGED <<emails_csv, split, vectorizer, model, conn, detections,
                   false_positives, committed, start, written, stdin, consumed,
                   email, prediction, confidence>>

\* the analysis followed by the question, save_to_db left out
Analyze_SkipsSave ==
    /\ pc = "Analyzing"
    /\ \E r \in {analyze_email(PyStr(email))} :
           IF r.kind = "ok"
           THEN /\ prediction' = r.prediction
                /\ confidence' = r.confidence
                /\ out' = Msg("Result", upper(r.prediction), r.confidence, 0)
                /\ pc' = "AwaitingFeedback"
           ELSE /\ out' = Say(r.kind)
                /\ pc' = "Prompting"
                /\ UNCHANGED <<prediction, confidence>>
    /\ UNCHANGED <<emails_csv, split, vectorizer, model, conn, detections,
                   false_positives, committed, start, written, stdin, consumed,
                   email>>

\* the analysis fitting the vocabulary on the text it analyses
\* (fit_transform in the place of transform)
Analyze_Refits ==
    /\ pc = "Analyzing"
    /\ \E r \in {analyze_email(PyStr(email))} :
           IF r.kind = "ok"
           THEN /\ prediction' = r.prediction
                /\ confidence' = r.confidence
                /\ out' = Msg("Result", upper(r.prediction), r.confidence, 0)
                /\ pc' = "Saving"
                /\ vectorizer' = { t \in DOMAIN Ord :
                                     Ord[t] \in Chars(lower(email)) }
           ELSE /\ out' = Say(r.kind)
                /\ pc' = "Prompting"
                /\ UNCHANGED <<prediction, confidence, vectorizer>>
    /\ UNCHANGED <<emails_csv, split, model, conn, detections,
                   false_positives, committed, start, written, stdin,
                   consumed, email>>

\* lines 145-146, and line 162 when analyze_email raises
Analyze ==
    /\ pc = "Analyzing"
    /\ \E r \in {analyze_email(PyStr(email))} :
           IF r.kind = "ok"
           THEN /\ prediction' = r.prediction
                /\ confidence' = r.confidence
                /\ out' = Msg("Result", upper(r.prediction), r.confidence, 0)
                /\ pc' = "Saving"
           ELSE /\ out' = Say(r.kind)
                /\ pc' = "Prompting"
                /\ UNCHANGED <<prediction, confidence>>
    /\ UNCHANGED <<emails_csv, split, vectorizer, model, conn, detections,
                   false_positives, committed, start, written, stdin, consumed,
                   email>>

\* line 148; an exception that leaves save_to_db is caught at line 161
SaveToDb ==
    /\ pc = "Saving"
    /\ \E outcome \in WriteOutcomes :
          \E r \in {save_to_db(email, prediction, confidence, outcome)} :
              /\ detections' = r.store.detections
              /\ false_positives' = r.store.false_positives
              /\ committed' = r.store.committed
              /\ written' = IF r.stored THEN [written EXCEPT !.det = @ + 1]
                            ELSE written
              /\ out' = IF r.raised # "" THEN Say(r.raised)
                        ELSE IF r.warn = "" THEN out ELSE Say(r.warn)
              /\ pc' = IF r.raised # "" THEN "Prompting"
                       ELSE "AwaitingFeedback"
    /\ UNCHANGED <<emails_csv, split, vectorizer, model, conn, start, stdin, consumed,
                   email, prediction, confidence>>

\* the handler of line 161 closing the connection
Feedback_ClosesOnError ==
    /\ pc = "AwaitingFeedback"
    /\ \E in \in Available(FeedbackInputs) :
          /\ stdin' = in
          /\ consumed' = Consumed(in)
          /\ CASE in.kind = "eof" ->
                    /\ pc' = "Prompting" /\ out' = Say("EOF when reading a line")
                    /\ conn' = "closed"
               [] in.kind = "interrupt" ->
                    pc' = "Crashed" /\ out' = Say("Traceback") /\ conn' = conn
               [] OTHER ->
                    /\ pc' = IF IsNegative(lower(in.text)) THEN "AwaitingLabel"
                             ELSE "Prompting"
                    /\ out' = out /\ conn' = conn
    /\ UNCHANGED <<emails_csv, split, vectorizer, model, detections,
                   false_positives, committed, start, written, email, prediction,
                   confidence>>

\* lines 150-151; EOFError is caught at line 161, KeyboardInterrupt is not
Feedback ==
    /\ pc = "AwaitingFeedback"
    /\ \E in \in Available(FeedbackInputs) :
          /\ stdin' = in
          /\ consumed' = Consumed(in)
          /\ CASE in.kind = "eof" ->
                    pc' = "Prompting" /\ out' = Say("EOF when reading a line")
               [] in.kind = "interrupt" ->
                    pc' = "Crashed" /\ out' = Say("Traceback")
               [] OTHER ->
                    /\ pc' = IF IsNegative(lower(in.text)) THEN "AwaitingLabel"
                             ELSE "Prompting"
                    /\ out' = out
    /\ UNCHANGED <<emails_csv, split, vectorizer, model, conn, detections,
                   false_positives, committed, start, written, email, prediction,
                   confidence>>

\* lines 152-159; sqlite3.Error raised by the INSERT or by the commit, and
\* UnicodeEncodeError raised for a text that cannot be encoded, are caught
\* at line 161
CorrectLabel ==
    /\ pc = "AwaitingLabel"
    /\ \E in \in Available(LabelInputs), outcome \in WriteOutcomes :
          /\ stdin' = in
          /\ consumed' = Consumed(in)
          /\ CASE in.kind = "eof" ->
                    /\ pc' = "Prompting" /\ out' = Say("EOF when reading a line")
                    /\ UNCHANGED <<detections, false_positives, committed,
                                   written>>
               [] in.kind = "interrupt" ->
                    /\ pc' = "Crashed" /\ out' = Say("Traceback")
                    /\ UNCHANGED <<detections, false_positives, committed,
                                   written>>
               [] OTHER ->
                    \E actual_label \in {lower(strip(in.text))} :
                        /\ pc' = "Prompting"
                        /\ IF ~ValidLabel(actual_label)
                           THEN /\ out' = Say("InvalidLabel")
                                /\ UNCHANGED <<detections, false_positives,
                                               committed, written>>
                           ELSE IF ~Encodable(email)
                           THEN /\ out' = Say("UnicodeEncodeError")
                                /\ UNCHANGED <<detections, false_positives,
                                               committed, written>>
                           ELSE \E t \in {Write(Store,
                                        [Store EXCEPT !.false_positives =
                                            InsertFalsePositive(@, email,
                                                                actual_label)],
                                        outcome)} :
                                /\ detections' = t.detections
                                /\ false_positives' = t.false_positives
                                /\ committed' = t.committed
                                /\ written' = IF outcome = "stored"
                                              THEN [written EXCEPT !.fp = @ + 1]
                                              ELSE written
                                /\ out' = IF outcome = "stored"
                                          THEN Say("FeedbackSaved")
                                          ELSE Say("DatabaseError")
    /\ UNCHANGED <<emails_csv, split, vectorizer, model, conn, start, email,
                   prediction, confidence>>

Next ==
    \/ LoadData
    \/ ValidateData
    \/ SplitData
    \/ Fit
    \/ OpenStore
    \/ Evaluate
    \/ StartSession
    \/ Prompt
    \/ Report
    \/ Analyze
    \/ SaveToDb
    \/ Feedback
    \/ CorrectLabel

Spec == Init /\ [][Next]_vars

(***************************************************************************)
(* Properties of the interactive loop.                                     *)
(***************************************************************************)
LogsUnchanged ==
    /\ detections' = detections
    /\ false_positives' = false_positives
    /\ committed' = committed
    /\ written' = written

IsPrefix(s, t) == Len(s) <= Len(t) /\ s = SubSeq(t, 1, Len(s))

\* the step adds no row to either table and commits nothing
NothingWritten ==
    /\ IsPrefix(detections', detections)
    /\ IsPrefix(false_positives', false_positives)
    /\ committed' = committed
    /\ written' = written

\* the step reads a line at the main prompt
ReadsLine == pc = "Prompting" /\ stdin'.kind = "line"

\* C1 as stated: a line at the main prompt whose trimmed length is below 10
\* is never analysed, writes no record and leaves the session in Prompting.
C1_ShortLineStaysInPrompting ==
    [][ (ReadsLine /\ len(strip(stdin'.text)) < MinLen)
        => (pc' = "Prompting" /\ NothingWritten) ]_vars

\* C1 amended: a line at the main prompt whose trimmed length is below 10 is
\* never analysed and writes no record; the session stays in Prompting unless
\* the trimmed line is quit (any letter case), which ends the session, or
\* report, which runs the report branch.  Whatever is analysed is the
\* trimmed line and has at least 10 characters.
C1_ShortLineNeverAnalysed ==
    [][ /\ ReadsLine
           => \E line \in {strip(stdin'.text)} :
                 /\ len(line) < MinLen
                    => /\ NothingWritten
                       /\ \E word \in {lower(line)} :
                             pc' = IF word = S_quit THEN "Terminated"
                                   ELSE IF word = S_report THEN "Reporting"
                                   ELSE "Prompting"
                 /\ pc' = "Analyzing"
                    => /\ email' = line
                       /\ len(line) >= MinLen
        /\ pc' = "Analyzing" => ReadsLine ]_vars

\* A line of 10 or more characters, fewer once trimmed, has been refused.
C1_Witness ==
    /\ pc = "Prompting"
    /\ stdin.kind = "line"
    /\ len(stdin.text) >= MinLen
    /\ len(strip(stdin.text)) < MinLen
    /\ strip(stdin.text) # <<>>
    /\ out = Say("ErrorEmailTooShort")

\* C2: once the connection is acquired, every way the process ends (the quit
\* command, or an error that ends the process) has released it.
C2_ConnectionReleasedOnEveryExit ==
    (pc \in {"Terminated", "Crashed", "Failed"} /\ conn # "none")
    => conn = "closed"

\* a step in which an error that is not fatal is raised: a short or empty
\* line, a rejected analysis, a failed or skipped detection write, an
\* unrecognised label or a failed feedback write, a failed report query
NonFatalErrorStep ==
    \/ ReadsLine /\ Command(strip(stdin'.text)) \in {"empty", "short"}
    \/ pc = "Analyzing" /\ analyze_email(PyStr(email)).kind # "ok"
    \/ pc = "Saving" /\ out'.msg \in {"DatabaseError", "SkippingSave",
                                      "UnicodeEncodeError"}
    \/ pc = "AwaitingLabel" /\ out'.msg \in {"InvalidLabel", "DatabaseError",
                                             "UnicodeEncodeError"}
    \/ pc = "Reporting" /\ out'.msg = "Traceback"

\* C3: after an error that is not fatal, raised anywhere in a cycle, the
\* session's next state is Prompting.
C3_NonFatalErrorsReturnToPrompting ==
    [][ NonFatalErrorStep => pc' = "Prompting" ]_vars

\* C4: save_to_db never raises: the step after it is AwaitingFeedback with
\* the prediction kept, whether the row was written, the write was skipped
\* (empty text or prediction) or the write failed; a skipped or failed
\* write, which prints a warning, leaves the detections table as it was.
C4_SaveNeverRaises ==
    [][ pc = "Saving"
        => /\ pc' = "AwaitingFeedback"
           /\ <<email', prediction', confidence', false_positives', conn'>>
              = <<email, prediction, confidence, false_positives, conn>>
           /\ \/ /\ detections' = detections
                 /\ out'.msg \in {"DatabaseError", "SkippingSave"}
              \/ /\ Added(detections', detections,
                          [id |-> NextId(detections), email_text |-> email,
                           prediction |-> prediction,
                           confidence |-> confidence])
                 /\ out' = out
           /\ \A outcome \in WriteOutcomes :
                 /\ save_to_db(<<>>, prediction, confidence, outcome)
                    = [store |-> Store, warn |-> "SkippingSave",
                       stored |-> FALSE, raised |-> ""]
                 /\ save_to_db(email, <<>>, confidence, outcome)
                    = [store |-> Store, warn |-> "SkippingSave",
                       stored |-> FALSE, raised |-> ""] ]_vars

(***************************************************************************)
(* analyze_email called on its own: any argument, any fitted model.        *)
(***************************************************************************)
CallTexts ==
    UNION { Pads(c) : c \in { <<>>, Rep("a", 1), T_short, Rep("a", MaxLen - 1),
                              T_long, Rep("a", MaxLen + 1),
                              Rep(" ", MaxLen + 1),
                              Cat(Rep("b", MaxLen), Cat(Rep(" ", 1), Rep("a", 1))) } }

CallArguments == { PyStr(t) : t \in CallTexts } \cup {PyNone}

\* the data sets the script trains on: lines 19-22 accept them, the split
\* does not raise and the vocabulary is not empty
TrainingData ==
    { d \in Datasets : ValidData(d) /\ ~SplitFails(d) /\ d.terms # {} }

\* email holds the argument of the call, made once the script has trained
\* on one of its data sets
InitCall ==
    /\ pc = "Call"
    /\ email \in CallArguments
    /\ emails_csv \in TrainingData
    /\ split \in SplitsOf(emails_csv)
    /\ vectorizer = emails_csv.terms
    /\ model \in FittedModels(split)
    /\ conn = "open"
    /\ detections = <<>>
    /\ false_positives = <<>>
    /\ committed = [det |-> 0, fp |-> 0]
    /\ start = [det |-> 0, fp |-> 0]
    /\ written = [det |-> 0, fp |-> 0]
    /\ stdin = NoInput
    /\ consumed = 0
    /\ prediction = <<>>
    /\ confidence = 0
    /\ out = Say("InteractiveMode")

\* the call returns or raises; out tells which, and what reached the
\* vectorizer
CallAnalyze ==
    /\ pc = "Call"
    /\ \E r \in {analyze_email(email)} :
          /\ pc' = IF r.kind = "ok" THEN "Returned" ELSE "Raised"
          /\ prediction' = r.prediction
          /\ confidence' = r.confidence
          /\ out' = Msg(r.kind, r.seen, 0, 0)
    /\ UNCHANGED <<emails_csv, split, vectorizer, model, conn, detections,
                   false_positives, committed, start, written, stdin, consumed,
                   email>>

NextCall == CallAnalyze

SpecCall == InitCall /\ [][NextCall]_vars

\* C5: analyze_email tests emptiness first and length second, and rejects
\* instead of truncating: an argument that is empty once trimmed raises the
\* empty-text error whatever its length; otherwise a text longer than 1000
\* raises the too-long error and nothing reaches the vectorizer; otherwise
\* (1000 characters included) the whole text is classified.
C5_PreconditionsInOrder ==
    pc \in {"Returned", "Raised"} =>
       LET t == email.text
           empty == email.type # "str" \/ strip(t) = <<>>
       IN  /\ empty =>
                 pc = "Raised" /\ out = Msg("Empty email text", <<>>, 0, 0)
           /\ (~empty /\ len(t) > MaxLen) =>
                 /\ pc = "Raised"
                 /\ out = Msg("Email too long (max 1000 chars)", <<>>, 0, 0)
           /\ (~empty /\ len(t) <= MaxLen) =>
                 /\ pc = "Returned"
                 /\ out = Msg("ok", t, 0, 0)
                 /\ prediction \in Labels

\* More than 1000 characters, all of them whitespace: the empty-text error.
C5_Witness ==
    /\ pc = "Raised"
    /\ email.type = "str"
    /\ len(email.text) > MaxLen
    /\ strip(email.text) = <<>>
    /\ out.msg = "Empty email text"

\* C6: when analyze_email rejects the message of a session cycle, neither
\* table changes, no feedback is asked for and the session is back in
\* Prompting.
C6_RejectedAnalysisWritesNothing ==
    [][ (pc = "Analyzing" /\ (strip(email) = <<>> \/ len(email) > MaxLen))
        => /\ pc' = "Prompting"
           /\ LogsUnchanged
           /\ prediction' = prediction
           /\ out'.msg \in {"Empty email text",
                            "Email too long (max 1000 chars)"} ]_vars

\* A line of 1001 characters was rejected by analyze_email.
C6_Witness ==
    /\ pc = "Prompting"
    /\ out = Say("Email too long (max 1000 chars)")
    /\ email = strip(stdin.text)
    /\ len(email) > MaxLen
    /\ written = [det |-> 0, fp |-> 0]

\* the step reads a recognised label at the corrected-label prompt, which
\* is reached by the negative answer after a prediction
ReadsValidLabel ==
    /\ pc = "AwaitingLabel"
    /\ stdin'.kind = "line"
    /\ lower(strip(stdin'.text)) \in Labels

\* C7 as stated: the negative answer followed by a recognised label adds
\* exactly one feedback record, holding the analysed text and that label,
\* and leaves the detections alone.
C7_ValidLabelAddsOneRecord ==
    [][ ReadsValidLabel
        => /\ Len(false_positives') = Len(false_positives) + 1
           /\ Last(false_positives').email_text = email
           /\ Last(false_positives').actual_label = lower(strip(stdin'.text))
           /\ detections' = detections ]_vars

\* C7 amended: the negative answer followed by a recognised label L adds
\* exactly one feedback record (the analysed text, L), commits it and
\* confirms it when the INSERT and the commit succeed, and the detections
\* are then unchanged.  When either raises, the error is printed instead,
\* nothing is committed, and the record is absent, or left in the open
\* transaction, or the open transaction is rolled back.  Either way the
\* session is back in Prompting.  The corrected-label prompt is only
\* reached by the answer n (any case) after a prediction of the text in
\* email.
C7_AcceptedLabelAddsOneRecord ==
    [][ /\ ReadsValidLabel
           => \E rec \in
                  {[id |-> NextId(false_positives), email_text |-> email,
                    actual_label |-> lower(strip(stdin'.text))]} :
              /\ pc' = "Prompting"
              /\ \/ /\ out' = Say("FeedbackSaved")
                    /\ Added(false_positives', false_positives, rec)
                    /\ detections' = detections
                    /\ written' = [written EXCEPT !.fp = @ + 1]
                    /\ committed' = [det |-> Len(detections),
                                     fp |-> Len(false_positives) + 1]
                 \/ /\ out' = Say("DatabaseError")
                    /\ written' = written
                    /\ committed' = committed
                    /\ \/ /\ \/ false_positives' = false_positives
                             \/ Added(false_positives', false_positives, rec)
                          /\ detections' = detections
                       \/ /\ false_positives'
                             = SubSeq(false_positives, 1, committed.fp)
                          /\ detections' = SubSeq(detections, 1, committed.det)
        /\ pc' = "AwaitingLabel"
           => /\ stdin'.kind = "line" /\ lower(stdin'.text) = S_n
              /\ analyze_email(PyStr(email')).kind = "ok"
              /\ prediction' = analyze_email(PyStr(email')).prediction ]_vars

\* The label typed as " LEGITIMATE" and ended by a carriage return was
\* stored as legitimate.
C7_Witness ==
    /\ pc = "Prompting"
    /\ out = Say("FeedbackSaved")
    /\ written.fp = 1
    /\ stdin.text # S_legitimate
    /\ Last(false_positives).actual_label = S_legitimate
    /\ Last(false_positives).email_text = email

\* C8: a feedback record is written only at the corrected-label prompt,
\* which follows the negative answer, and only for a recognised label; any
\* other answer to the correctness prompt and any unrecognised label leave
\* false_positives unchanged and return the session to Prompting.
C8_FeedbackOnlyOnDispute ==
    [][ /\ ~IsPrefix(false_positives', false_positives)
           => /\ pc = "AwaitingLabel"
              /\ stdin.kind = "line" /\ lower(stdin.text) = S_n
              /\ stdin'.kind = "line"
              /\ lower(strip(stdin'.text)) \in Labels
        /\ (pc = "AwaitingFeedback" /\ stdin'.kind = "line"
            /\ lower(stdin'.text) # S_n)
           => pc' = "Prompting" /\ LogsUnchanged
        /\ (pc = "AwaitingLabel" /\ stdin'.kind = "line"
            /\ lower(strip(stdin'.text)) \notin Labels)
           => /\ pc' = "Prompting" /\ LogsUnchanged
              /\ out' = Say("InvalidLabel") ]_vars

\* An unrecognised label was refused and nothing was written.
C8_Witness ==
    /\ pc = "Prompting"
    /\ out = Say("InvalidLabel")
    /\ stdin.kind = "line"
    /\ lower(strip(stdin.text)) \notin Labels
    /\ written.fp = 0
    /\ Len(false_positives) = start.fp

\* C9: the report command changes neither table nor the trained model,
\* prints the two counts and returns to Prompting.
C9_ReportChangesNothing ==
    [][ pc = "Reporting"
        => /\ pc' = "Prompting"
           /\ LogsUnchanged
           /\ model' = model /\ vectorizer' = vectorizer
           /\ out' = Msg("Report", <<>>, Len(detections),
                         Len(false_positives)) ]_vars

IdsIncreasing(rows) ==
    \A i \in 1..Len(rows) : \A j \in 1..Len(rows) :
        i < j => rows[i].id < rows[j].id

\* C10: both tables only grow at the end, ids increase strictly, and a
\* report prints the counts found when the store was opened plus the number
\* of writes that have succeeded since.
C10_AppendOnlyAndFreshCounts ==
    [][ /\ IsPrefix(detections, detections')
        /\ IsPrefix(false_positives, false_positives')
        /\ IdsIncreasing(detections') /\ IdsIncreasing(false_positives')
        /\ Len(detections') - Len(detections) = written'.det - written.det
        /\ Len(false_positives') - Len(false_positives)
           = written'.fp - written.fp
        /\ (pc = "Reporting" /\ pc' = "Prompting")
           => out' = Msg("Report", <<>>, start.det + written.det,
                         start.fp + written.fp) ]_vars

(***************************************************************************)
(* Properties of the store, the start-up and the prediction service.       *)
(***************************************************************************)
\* SELECT * FROM detections ORDER BY id DESC LIMIT 1
Latest(rows) == Fetch(CHOOSE r \in { rows[i] : i \in 1..Len(rows) } :
                         \A i \in 1..Len(rows) : rows[i].id <= r.id)

\* the step is a call of save_to_db that stored its row
SaveSucceeds == pc = "Saving" /\ written'.det = written.det + 1

\* C11: after a successful save_to_db(email, prediction, confidence), the
\* record of detections with the greatest id, read back from its stored
\* bytes, holds exactly that text, that prediction and that confidence,
\* whatever the session did before; it is
\* a new record, and the text, label and confidence are those analyze_email
\* returned for the line read at the prompt.
C11_LatestDetectionIsWhatWasSaved ==
    [][ SaveSucceeds
        => /\ Len(detections') = Len(detections) + 1
           /\ Latest(detections') = Last(detections')
           /\ \A i \in 1..Len(detections) :
                 detections[i].id < Latest(detections').id
           /\ Latest(detections').email_text = email
           /\ Latest(detections').prediction = prediction
           /\ Latest(detections').confidence = confidence
           /\ email = strip(stdin.text)
           /\ prediction = analyze_email(PyStr(email)).prediction
           /\ confidence = analyze_email(PyStr(email)).confidence ]_vars

\* A detection of the text with inner whitespace and a letter of two
\* bytes was saved on top of the rows of an earlier session, and it is the
\* latest record.
C11_Witness ==
    /\ pc = "AwaitingFeedback"
    /\ start.det > 0
    /\ written.det = 1
    /\ email = T_short
    /\ detections[Len(detections)].email_text # email
    /\ Latest(detections) = [id |-> start.det + 1, email_text |-> T_short,
                             prediction |-> prediction,
                             confidence |-> confidence]
    /\ prediction \in Labels

\* the file can be read, and it lacks a required column or holds a label
\* other than phishing and legitimate
Malformed(d) ==
    /\ d.readable
    /\ \/ "text" \notin d.columns
       \/ "label" \notin d.columns
       \/ d.nOther > 0

\* C12: a data set that lacks the text or the label column, or holds an
\* unrecognised label, stops the script at the validation, with the error
\* printed: nothing is split, no vocabulary and no classifier are fitted,
\* the store is never opened and the interactive loop is never entered.
C12_MalformedDataAbortsBeforeTraining ==
    Malformed(emails_csv)
    => /\ pc \in {"Idle", "Loaded", "Failed"}
       /\ pc = "Failed" => out = Say("ErrorLoadingData")
       /\ split = NoSplit
       /\ vectorizer = {}
       /\ model = NoModel
       /\ conn = "none"
       /\ stdin = NoInput
       /\ written = [det |-> 0, fp |-> 0]

\* Both columns are there and one row is labelled otherwise: the script
\* has stopped.
C12_Witness ==
    /\ pc = "Failed"
    /\ {"text", "label"} \subseteq emails_csv.columns
    /\ emails_csv.nOther > 0
    /\ out = Say("ErrorLoadingData")
    /\ model = NoModel /\ conn = "none"

(***************************************************************************)
(* Further properties of the interactive loop.                             *)
(***************************************************************************)
\* the step reads quit or report (any letter case, surrounding whitespace
\* aside) as the answer to one of the two questions of the feedback branch
AnswersWithCommand ==
    /\ pc \in {"AwaitingFeedback", "AwaitingLabel"}
    /\ stdin'.kind = "line"
    /\ lower(strip(stdin'.text)) \in {S_quit, S_report}

\* C13: the session becomes Terminated only by a step from Prompting that
\* reads a line whose trimmed text is quit in any letter case, and such a
\* line always terminates it; quit and report given as the answer to the
\* correctness question or to the corrected-label question are taken as
\* answers: the session goes back to Prompting, the connection stays as it
\* is, nothing is written and no report is printed.
C13_QuitOnlyAtThePrompt ==
    [][ /\ (pc' = "Terminated" /\ pc # "Terminated")
           => /\ ReadsLine
              /\ lower(strip(stdin'.text)) = S_quit
        /\ (ReadsLine /\ lower(strip(stdin'.text)) = S_quit)
           => pc' = "Terminated"
        /\ AnswersWithCommand
           => /\ pc' = "Prompting"
              /\ conn' = conn
              /\ LogsUnchanged
              /\ out'.msg \notin {"SessionEnded", "DatabaseSummary",
                                  "Report"} ]_vars

\* quit was given as the corrected label: it was refused as a label and
\* the session goes on.
C13_Witness ==
    /\ pc = "Prompting"
    /\ stdin = Line(S_quit)
    /\ out = Say("InvalidLabel")
    /\ conn = "open"

(***************************************************************************)
(* Properties of analyze_email called on its own.                          *)
(***************************************************************************)
RECURSIVE SeqSum(_)
SeqSum(q) == IF q = <<>> THEN 0 ELSE Head(q) + SeqSum(Tail(q))

\* the distribution the classifier gives for the argument of the call
Distribution == predict_proba(transform(email.text))

\* C14 as stated: the confidence returned for an accepted text is 100 times
\* the largest class probability.  (A confidence is counted in hundredths
\* of a percent and a probability in 1/PScale.)
C14_ConfidenceIsHundredTimesMax ==
    pc = "Returned" => confidence * PScale = 10000 * SeqMax(Distribution)

\* C14 amended: the class probabilities are not negative and sum to 1; the
\* confidence returned for an accepted text is 100 times the largest of
\* them rounded to two decimal places (at most half a hundredth away), so
\* it lies in [0, 100]; with two classes it is never below 50; and the
\* label returned is a class that holds the largest probability.
C14_ConfidenceIsRoundedMax ==
    pc = "Returned" =>
       LET q == Distribution
           m == SeqMax(q)
           d == confidence * PScale - 10000 * m
       IN  /\ Len(q) = Len(model.classes)
           /\ \A i \in 1..Len(q) : q[i] >= 0
           /\ SeqSum(q) = PScale
           /\ 2 * d <= PScale /\ -2 * d <= PScale
           /\ confidence >= 0 /\ confidence <= 10000
           /\ Len(model.classes) = 2 => confidence >= 5000
           /\ \E i \in 1..Len(q) : q[i] = m /\ prediction = model.classes[i]

\* Two classes, phishing the likelier one, and a largest probability that
\* has more than two decimals as a percentage: the confidence is rounded.
C14_Witness ==
    /\ pc = "Returned"
    /\ Len(model.classes) = 2
    /\ prediction = S_phishing
    /\ confidence * PScale # 10000 * SeqMax(Distribution)
    /\ confidence > 5000 /\ confidence < 10000

\* C15: save_to_db is called exactly when analyze_email has returned: the
\* call is reached only by a successful analysis, whose result has just
\* been printed, and every successful analysis reaches it; it is made once,
\* with the analysed text and the label and confidence returned, and leads
\* to the correctness question, which is reached in no other way; a call
\* that raises, for a text that cannot be encoded, ends the cycle.
C15_SaveOncePerSuccessfulAnalysis ==
    [][ /\ pc' = "Saving" => pc = "Analyzing"
        /\ pc = "Analyzing"
           => \E a \in {analyze_email(PyStr(email))} :
                 /\ a.kind = "ok" <=> pc' = "Saving"
                 /\ pc' = "Saving"
                    => /\ email' = email
                       /\ prediction' = a.prediction
                       /\ confidence' = a.confidence
                       /\ out' = Msg("Result", upper(a.prediction),
                                     a.confidence, 0)
                       /\ LogsUnchanged
        /\ pc = "Saving"
           => /\ pc' = IF Encodable(email) THEN "AwaitingFeedback"
                       ELSE "Prompting"
              /\ stdin' = stdin
              /\ ~IsPrefix(detections', detections)
                 => detections' = InsertDetection(detections, email,
                                                  prediction, confidence)
        /\ pc' = "AwaitingFeedback" => pc = "Saving"
        /\ (pc = "AwaitingFeedback" /\ stdin'.kind = "line")
           => detections' = detections ]_vars

\* The result was printed, one detection was written, and the question is
\* about to be asked.
C15_Witness ==
    /\ pc = "AwaitingFeedback"
    /\ out = Msg("Result", upper(prediction), confidence, 0)
    /\ written.det = 1
    /\ Len(detections) = start.det + 1
    /\ Last(detections).email_text = email
    /\ email = T_long

(***************************************************************************)
(* Properties of the start-up.                                             *)
(***************************************************************************)
\* the positions that may follow a position of the start-up: the script
\* may stop at the load and at the validation, and where the store is
\* opened; the interactive loop stands for Ready
PipelineSuccessors(p) ==
    CASE p = "Idle" -> {"Loaded", "Failed"}
      [] p = "Loaded" -> {"Validated", "Failed"}
      [] p = "Validated" -> {"Split"}
      [] p = "Split" -> {"Fitted"}
      [] p = "Fitted" -> {"Connected", "Crashed"}
      [] p = "Connected" -> {"Evaluated"}
      [] p = "Evaluated" -> {"Prompting"}
      [] OTHER -> {}

\* C16: the start-up moves along Idle, Loaded, Validated, Split, Fitted,
\* Evaluated, Ready in that order and stops early only at the load or the
\* validation: a data set that passed the validation is split, fitted and
\* evaluated, however small it is, and an empty test subset only skips the
\* evaluation.
C16_ValidatedDataReachesReady ==
    [][ /\ PipelineSuccessors(pc) # {} => pc' \in PipelineSuccessors(pc)
        /\ (pc = "Connected" /\ split.n_test = 0)
           => out' = Say("EvaluationSkipped") ]_vars

(***************************************************************************)
(* Properties of the connection and of the fitted model.                   *)
(***************************************************************************)
\* the positions of the interactive loop before it ends
InSession ==
    pc \in {"Prompting", "Reporting", "Analyzing", "Saving",
            "AwaitingFeedback", "AwaitingLabel"}

\* C17: the connection is open wherever the interactive loop stands before
\* it ends, also right after an error the loop recovers from; it is closed
\* only once the session is Terminated, where no statement runs any more,
\* so no query and no insert is issued on a closed connection.
C17_ConnectionOpenThroughoutSession ==
    /\ InSession => conn = "open"
    /\ conn = "closed" => pc = "Terminated"
    /\ (written.det > 0 \/ written.fp > 0) => conn # "none"

\* The insert of a corrected label has failed; the loop is back at the
\* prompt and the connection is open.
C17_Witness ==
    /\ pc = "Prompting"
    /\ out = Say("DatabaseError")
    /\ stdin.kind = "line"
    /\ lower(strip(stdin.text)) \in Labels
    /\ conn = "open"

\* the detections written since the store was opened
SessionDetections(rows) ==
    { Fetch(rows[i]) : i \in (start.det + 1)..Len(rows) }

\* C18: no step of the interactive loop changes the vocabulary, the
\* classifier or the data they were fitted on; the analysis step changes
\* neither table, nor the connection, nor the text it analyses.  What
\* analyze_email returns is computed from the text and from the fitted
\* vocabulary and classifier only, which these steps leave as they were.
C18_AnalysisIsPureAndModelFixed ==
    [][ /\ InSession
           => <<vectorizer', model', emails_csv', split'>>
              = <<vectorizer, model, emails_csv, split>>
        /\ pc = "Analyzing"
           => /\ LogsUnchanged
              /\ <<conn', stdin', email', start'>> = <<conn, stdin, email, start>>
        ]_vars

\* A text for which the session has written a detection was analysed a
\* second time, with the label and the confidence of that detection.
C18_Witness ==
    /\ pc = "Saving"
    /\ out = Msg("Result", upper(prediction), confidence, 0)
    /\ Len(model.classes) = 2
    /\ \E r \in SessionDetections(detections) :
          /\ r.email_text = email
          /\ r.prediction = prediction
          /\ r.confidence = confidence
          /\ r.prediction = S_phishing

(***************************************************************************)
(* Feedback records and the detections they dispute.                       *)
(***************************************************************************)
\* the feedback records written since the store was opened
SessionFeedback(rows) == { Fetch(rows[i]) : i \in (start.fp + 1)..Len(rows) }

\* C19 as stated: the feedback records written in the session never
\* outnumber the detections written in the session, and each of them holds
\* the text of a detection written in the session, also when a detection
\* write was skipped or failed.
C19_FeedbackHasMatchingDetection ==
    /\ Len(false_positives) - start.fp <= Len(detections) - start.det
    /\ \A f \in SessionFeedback(false_positives) :
          \E d \in SessionDetections(detections) :
             d.email_text = f.email_text

\* C19 amended: a feedback record is written only in a cycle in which
\* analyze_email succeeded and save_to_db was called for the same text, at
\* most one per cycle, and it holds that text: the call is reached only by
\* a successful analysis, the two questions only by the call, and the text
\* and the label are kept on the way.  While the two questions are asked,
\* the detection of the cycle is the latest record of detections when the
\* write succeeded; when the write failed (the warning is the last thing
\* printed) the feedback record is written all the same.  The write is
\* never skipped in the loop.
C19_FeedbackFollowsSaveCall ==
    [][ /\ (false_positives' # false_positives
            /\ ~IsPrefix(false_positives', false_positives))
           => /\ pc = "AwaitingLabel" /\ pc' = "Prompting"
              /\ Len(false_positives') = Len(false_positives) + 1
              /\ Last(false_positives').email_text = email
              /\ detections' = detections
        /\ (pc' = "Saving" /\ pc # "Saving")
           => /\ pc = "Analyzing" /\ email' = email
              /\ \E a \in {analyze_email(PyStr(email))} :
                    a.kind = "ok" /\ prediction' = a.prediction
        /\ (pc' = "AwaitingFeedback" /\ pc # "AwaitingFeedback")
           => /\ pc = "Saving"
              /\ <<email', prediction'>> = <<email, prediction>>
        /\ (pc' = "AwaitingLabel" /\ pc # "AwaitingLabel")
           => /\ pc = "AwaitingFeedback"
              /\ <<email', prediction'>> = <<email, prediction>>
        /\ pc \in {"AwaitingFeedback", "AwaitingLabel"}
           => /\ out.msg \in {"Result", "DatabaseError"}
              /\ out.msg = "Result"
                 => /\ written.det > 0
                    /\ Latest(detections) \in SessionDetections(detections)
                    /\ Latest(detections).email_text = email
                    /\ Latest(detections).prediction = prediction ]_vars

\* The insert of the detection failed, the prediction was disputed, and
\* the feedback record was written: it has no detection to match.
C19_Witness ==
    /\ pc = "Prompting"
    /\ out = Say("FeedbackSaved")
    /\ written = [det |-> 0, fp |-> 1]
    /\ Last(false_positives).email_text = email
    /\ \A d \in SessionDetections(detections) : d.email_text # email

====
